---- MODULE Spec2Model ----
(***************************************************************************)
(* The TruthTable audit pipeline: claim extraction, evidence retrieval,    *)
(* per-claim verification, score aggregation, the graph that orders them   *)
(* (backend-python/src/truthtable/graphs) and the gRPC servicer that runs  *)
(* one pipeline per SubmitAudit call and stores its outcome                *)
(* (backend-python/src/truthtable/grpc/server.py).                         *)
(*                                                                         *)
(* Encoding.  A Python str is a sequence of one-character strings.  An     *)
(* Optional value is a sequence of length at most one (None is << >>).     *)
(* A text returned by the language model is identified with what           *)
(* json.loads makes of it: either it is not JSON, or it is a JSON value.   *)
(* A JSON value is a record [t, n, s, a, o] whose field t names the type   *)
(* and whose other fields hold the number (in hundredths), the string,     *)
(* the array items and the object members (a sequence of <<key, value>>).  *)
(* A float is kept exact, as a fraction [num, den] in lowest terms, and    *)
(* den = 0 holds nan, inf and -inf.  uuid4 is a fresh counter.             *)
(***************************************************************************)
EXTENDS Integers, Sequences, FiniteSets, TLC

VARIABLES
    embedding_service,  \* build_audit_graph argument: TRUE when supplied, FALSE when None
    qdrant_store,       \* build_audit_graph argument: TRUE when supplied, FALSE when None
    request,            \* request[p]: the AuditRequest of call p
    pc,                 \* pc[p]: position of call p ("idle", a graph node, "END", "done",
                        \* "cancelled")
    audit_id,           \* audit_id[p]: Some(uuid) once SubmitAudit has started
    state,              \* state[p]: the AuditState flowing through the graph
    raised,             \* raised[p]: name of the exception that ended the run, or "none"
    submission,         \* submission[p]: Some(AuditSubmission) once SubmitAudit returned
    visited,            \* visited[p]: the graph nodes executed by the run, in order
    llm_log,            \* llm_log[p]: the provider.complete calls of the run and their outcomes
    embed_calls,        \* embed_calls[p]: the argument of every embedding_service.embed call
    search_log,         \* search_log[p]: the query of every qdrant_store.search call, in order
    uuid_counter,       \* number of uuids generated so far
    audit_results,      \* the module-level dict _audit_results
    result_reply,       \* Some(what the latest GetAuditResult call returned)
    search_results,     \* search_results[p]: what each qdrant_store.search call returned,
                        \* kept where the retriever is checked on its own
    ollama_log          \* ollama_log[p]: the HTTP exchange and the outcome of each
                        \* OllamaProvider.complete call

vars == <<embedding_service, qdrant_store, request, pc, audit_id, state, raised,
          submission, visited, llm_log, embed_calls, search_log, uuid_counter,
          audit_results, result_reply, search_results, ollama_log>>

----------------------------------------------------------------------------
(* Bounds of the model *)

\* longest array of claims the model returns in the pipeline specification
MaxClaims == 2
\* longest array the model returns when decompose_claims is checked alone
MaxItems == 2
\* most results a vector search returns in the model (never above top_k)
MaxHits == 1
\* most claims of a run whose judgments are drawn from the widest range
MaxJudged == 1
\* most claims of a run whose judgments are drawn from the scoring range
MaxScored == 4
\* the number of claims of a long run, with two judgments to draw from
MaxLong == 10
\* most results a vector search returns when the retriever is checked alone
MaxFound == 2
\* most claims of a run whose reasoning trace is checked
MaxTraced == 7

----------------------------------------------------------------------------
(* Python values *)

None == << >>
Some(x) == << x >>
IsNone(o) == o = << >>
Get(o) == o[1]

\* str.isspace for the characters of the model
IsSpace(c) == c = " "

RECURSIVE LStrip(_)
LStrip(s) == IF s # << >> /\ IsSpace(Head(s)) THEN LStrip(Tail(s)) ELSE s

RECURSIVE RStrip(_)
RStrip(s) ==
    IF s # << >> /\ IsSpace(s[Len(s)]) THEN RStrip(SubSeq(s, 1, Len(s) - 1)) ELSE s

\* str.strip()
Strip(s) == RStrip(LStrip(s))

\* s[:n]
Prefix(s, n) == SubSeq(s, 1, IF Len(s) < n THEN Len(s) ELSE n)

----------------------------------------------------------------------------
(* Python floats *)

RECURSIVE GCD(_, _)
GCD(a, b) == IF b = 0 THEN a ELSE GCD(b, a % b)

Abs(a) == IF a < 0 THEN -a ELSE a
Sign(a) == IF a < 0 THEN -1 ELSE IF a > 0 THEN 1 ELSE 0

\* the float num / den (den > 0), in lowest terms
Fraction(num, den) ==
    LET g == GCD(Abs(num), den)
    IN  [num |-> num \div g, den |-> den \div g]

\* float("nan"), float("inf"), float("-inf")
NaN == [num |-> 0, den |-> 0]
Infinity == [num |-> 1, den |-> 0]
NegInfinity == [num |-> -1, den |-> 0]

IsNaN(x) == x = NaN
IsFinite(x) == x.den # 0

\* the float with the given number of hundredths
Hundredths(n) == Fraction(n, 100)

\* a + b on floats
FloatAdd(a, b) ==
    IF IsNaN(a) \/ IsNaN(b) THEN NaN
    ELSE IF ~IsFinite(a) /\ ~IsFinite(b) THEN (IF a = b THEN a ELSE NaN)
    ELSE IF ~IsFinite(a) THEN a
    ELSE IF ~IsFinite(b) THEN b
    ELSE Fraction(a.num * b.den + b.num * a.den, a.den * b.den)

\* a * b on floats
FloatMul(a, b) ==
    IF IsNaN(a) \/ IsNaN(b) THEN NaN
    ELSE IF ~IsFinite(a) \/ ~IsFinite(b)
    THEN [num |-> Sign(a.num) * Sign(b.num), den |-> 0]
    ELSE Fraction(a.num * b.num, a.den * b.den)

\* a / b on floats, for b other than 0.0
FloatDiv(a, b) ==
    IF IsNaN(a) \/ IsNaN(b) THEN NaN
    ELSE IF ~IsFinite(a) /\ ~IsFinite(b) THEN NaN
    ELSE IF ~IsFinite(a) THEN [num |-> a.num * Sign(b.num), den |-> 0]
    ELSE IF ~IsFinite(b) THEN Fraction(0, 1)
    ELSE Fraction(Sign(b.num) * a.num * b.den, Abs(b.num) * a.den)

\* a >= b on floats: every comparison with nan is False
FloatGe(a, b) ==
    IF IsNaN(a) \/ IsNaN(b) THEN FALSE
    ELSE IF ~IsFinite(a) /\ ~IsFinite(b) THEN a.num >= b.num
    ELSE a.num * b.den >= b.num * a.den

\* a > b on floats: every comparison with nan is False
FloatGt(a, b) ==
    IF IsNaN(a) \/ IsNaN(b) THEN FALSE
    ELSE IF ~IsFinite(a) /\ ~IsFinite(b) THEN a.num > b.num
    ELSE a.num * b.den > b.num * a.den

----------------------------------------------------------------------------
(* JSON values and the texts of the model *)

JNull == [t |-> "null", n |-> 0, s |-> << >>, a |-> << >>, o |-> << >>]
JBool(b) == [t |-> "bool", n |-> IF b THEN 1 ELSE 0, s |-> << >>, a |-> << >>, o |-> << >>]
JNum(n) == [t |-> "num", n |-> n, s |-> << >>, a |-> << >>, o |-> << >>]
\* the literals NaN, Infinity and -Infinity, which json.loads accepts
JNaN == [t |-> "nan", n |-> 0, s |-> << >>, a |-> << >>, o |-> << >>]
JInfinity(sign) == [t |-> "inf", n |-> sign, s |-> << >>, a |-> << >>, o |-> << >>]
JStr(s) == [t |-> "str", n |-> 0, s |-> s, a |-> << >>, o |-> << >>]
JArr(a) == [t |-> "arr", n |-> 0, s |-> << >>, a |-> a, o |-> << >>]
JObj(o) == [t |-> "obj", n |-> 0, s |-> << >>, a |-> << >>, o |-> o]

\* a text the model returned: not JSON at all, or the text of a JSON value
NotJson == [wf |-> FALSE, json |-> JNull]
JsonText(v) == [wf |-> TRUE, json |-> v]

\* json.loads(content.strip()): the value, or JSONDecodeError
JsonLoads(content) ==
    IF content.wf THEN [exc |-> "none", value |-> content.json]
    ELSE [exc |-> "JSONDecodeError", value |-> JNull]

\* bool(v) of a parsed JSON value
Truthy(v) ==
    CASE v.t = "null" -> FALSE
      [] v.t = "bool" -> v.n = 1
      [] v.t = "num" -> v.n # 0
      [] v.t \in {"nan", "inf"} -> TRUE
      [] v.t = "str" -> v.s # << >>
      [] v.t = "arr" -> v.a # << >>
      [] v.t = "obj" -> v.o # << >>

\* the outcome of provider.complete: a CompletionResponse or an exception
Returned(content) == [exc |-> "none", content |-> content]
Raises(e) == [exc |-> e, content |-> NotJson]

\* the exceptions LLMProvider.complete documents
ProviderErrors == {"ConnectionError", "ValueError", "RuntimeError"}

\* the exceptions a clause "except Exception" does not catch: the
\* asyncio.CancelledError thrown into a coroutine whose task is cancelled
\* derives from BaseException
BaseExceptions == {"CancelledError"}

----------------------------------------------------------------------------
(* Ollama provider: providers/ollama.py *)

\* The HTTP exchange of one complete call is a record [post, status, body]:
\* post is "none" or the name of the exception client.post raises, status
\* the status code of the response, body what response.json() finds: text
\* that is not JSON, a JSON array, or a JSON object with an optional
\* "message" (null, or an object with an optional "content", a text of the
\* model) and an optional "eval_count" (a JSON value).
PlainBody(t) == [t |-> t, message |-> None, eval_count |-> None]
ChatBody(message, eval_count) == [t |-> "obj", message |-> message, eval_count |-> eval_count]
Message(t, content) == [t |-> t, content |-> content]

\* response.raise_for_status() returns for a 2xx status and raises
\* httpx.HTTPStatusError otherwise
is_success(status) == status \in 200..299

\* the try block of OllamaProvider.complete after a 2xx response: the name
\* of the exception it raises, or "none", and the content of the response
\* it builds.  data.get and message.get need dicts; a missing message is {}
\* and a missing content is "", which is not JSON; the token counts are
\* added and need numbers.
parse_response(body) ==
    IF body.t = "text" THEN [exc |-> "JSONDecodeError", content |-> NotJson]
    ELSE IF body.t # "obj" THEN [exc |-> "AttributeError", content |-> NotJson]
    ELSE IF body.message # None /\ Get(body.message).t # "obj"
    THEN [exc |-> "AttributeError", content |-> NotJson]
    ELSE IF body.eval_count # None /\ Get(body.eval_count).t \notin {"num", "bool"}
    THEN [exc |-> "TypeError", content |-> NotJson]
    ELSE [exc |-> "none",
          content |-> IF body.message = None \/ Get(body.message).content = None
                      THEN NotJson
                      ELSE Get(Get(body.message).content)]

\* OllamaProvider.complete returning an empty response on an HTTP error status
complete_lenient(exchange) ==
    IF exchange.post = "ConnectError" THEN Raises("ConnectionError")
    ELSE IF exchange.post \in BaseExceptions THEN Raises(exchange.post)
    ELSE IF exchange.post # "none" THEN Raises("RuntimeError")
    ELSE IF ~is_success(exchange.status) THEN Returned(NotJson)
    ELSE LET parsed == parse_response(exchange.body)
         IN  IF parsed.exc # "none" THEN Raises("RuntimeError")
             ELSE Returned(parsed.content)

\* OllamaProvider.complete, given the HTTP exchange: httpx.ConnectError
\* becomes ConnectionError; httpx.HTTPStatusError and every other Exception
\* become RuntimeError; a BaseException passes the three except clauses
complete(exchange) ==
    IF exchange.post = "ConnectError" THEN Raises("ConnectionError")
    ELSE IF exchange.post \in BaseExceptions THEN Raises(exchange.post)
    ELSE IF exchange.post # "none" THEN Raises("RuntimeError")
    ELSE IF ~is_success(exchange.status) THEN Raises("RuntimeError")
    ELSE LET parsed == parse_response(exchange.body)
         IN  IF parsed.exc # "none" THEN Raises("RuntimeError")
             ELSE Returned(parsed.content)

----------------------------------------------------------------------------
(* Claim Extractor: graphs/nodes/decomposer.py *)

\* decomposer.py line 102: a claim is kept when len(c.strip()) > 5
MinClaimLen == 5

\* FilterClaims measuring the entry as it is, without strip()
RECURSIVE FilterClaims_unstripped(_)
FilterClaims_unstripped(items) ==
    IF items = << >> THEN [exc |-> "none", claims |-> << >>]
    ELSE LET c == Head(items)
             rest == FilterClaims_unstripped(Tail(items))
         IN  IF ~Truthy(c) THEN rest
             ELSE IF c.t # "str" THEN [exc |-> "AttributeError", claims |-> << >>]
             ELSE IF rest.exc # "none" THEN rest
             ELSE IF Len(c.s) > MinClaimLen
                  THEN [exc |-> "none", claims |-> <<c.s>> \o rest.claims]
                  ELSE rest

\* [c for c in claims if c and len(c.strip()) > 5]: a falsy item is dropped
\* before strip is called on it, a truthy item that is no str has no strip
RECURSIVE FilterClaims(_)
FilterClaims(items) ==
    IF items = << >> THEN [exc |-> "none", claims |-> << >>]
    ELSE LET c == Head(items)
             rest == FilterClaims(Tail(items))
         IN  IF ~Truthy(c) THEN rest
             ELSE IF c.t # "str" THEN [exc |-> "AttributeError", claims |-> << >>]
             ELSE IF rest.exc # "none" THEN rest
             ELSE IF Len(Strip(c.s)) > MinClaimLen
                  THEN [exc |-> "none", claims |-> <<c.s>> \o rest.claims]
                  ELSE rest

\* decompose_claims whose fallback claim goes through the length filter too
decompose_claims_filtered_fallback(llm_response, reply) ==
    IF reply.exc # "none" THEN [exc |-> "UnboundLocalError", claims |-> << >>]
    ELSE LET parsed == JsonLoads(reply.content)
         IN  IF parsed.exc = "JSONDecodeError"
             THEN FilterClaims(<<JStr(llm_response)>>)
             ELSE IF parsed.value.t # "arr"
             THEN [exc |-> "RuntimeError", claims |-> << >>]
             ELSE LET kept == FilterClaims(parsed.value.a)
                  IN  IF kept.exc # "none"
                      THEN [exc |-> "RuntimeError", claims |-> << >>]
                      ELSE kept

\* decompose_claims(llm_response, provider), given the outcome of the one
\* provider.complete call it makes.  "import json" is a statement of the try
\* body, so json is a local name that is unbound until line 95 has run: when
\* complete raises, evaluating "except json.JSONDecodeError" raises
\* UnboundLocalError, and that is what leaves the function.
decompose_claims(llm_response, reply) ==
    IF reply.exc # "none" THEN [exc |-> "UnboundLocalError", claims |-> << >>]
    ELSE LET parsed == JsonLoads(reply.content)
         IN  IF parsed.exc = "JSONDecodeError"
             THEN [exc |-> "none", claims |-> <<llm_response>>]
             ELSE IF parsed.value.t # "arr"
             THEN [exc |-> "RuntimeError", claims |-> << >>]
             ELSE LET kept == FilterClaims(parsed.value.a)
                  IN  IF kept.exc # "none"
                      THEN [exc |-> "RuntimeError", claims |-> << >>]
                      ELSE kept

----------------------------------------------------------------------------
(* Claim Verifier: graphs/nodes/verifier.py *)

LowerLetters ==
    <<"a", "b", "c", "d", "e", "f", "g", "h", "i", "j", "k", "l", "m",
      "n", "o", "p", "q", "r", "s", "t", "u", "v", "w", "x", "y", "z">>
UpperLetters ==
    <<"A", "B", "C", "D", "E", "F", "G", "H", "I", "J", "K", "L", "M",
      "N", "O", "P", "Q", "R", "S", "T", "U", "V", "W", "X", "Y", "Z">>

\* str.upper()
UpperChar(c) ==
    IF \E i \in 1..Len(LowerLetters) : LowerLetters[i] = c
    THEN UpperLetters[CHOOSE i \in 1..Len(LowerLetters) : LowerLetters[i] = c]
    ELSE c
Upper(s) == [i \in 1..Len(s) |-> UpperChar(s[i])]

SUPPORTED_NAME == <<"S", "U", "P", "P", "O", "R", "T", "E", "D">>
UNSUPPORTED_NAME == <<"U", "N">> \o SUPPORTED_NAME
PARTIALLY_SUPPORTED_NAME ==
    <<"P", "A", "R", "T", "I", "A", "L", "L", "Y", "_">> \o SUPPORTED_NAME
UNKNOWN_NAME == <<"U", "N", "K", "N", "O", "W", "N">>

\* class VerificationStatus: member name -> member
VerificationStatusNames ==
    {SUPPORTED_NAME, UNSUPPORTED_NAME, PARTIALLY_SUPPORTED_NAME, UNKNOWN_NAME}
VerificationStatus(name) ==
    CASE name = SUPPORTED_NAME -> "supported"
      [] name = UNSUPPORTED_NAME -> "unsupported"
      [] name = PARTIALLY_SUPPORTED_NAME -> "partially_supported"
      [] name = UNKNOWN_NAME -> "unknown"

\* dict.get / "key in dict" on the members of a JSON object
HasKey(members, key) == \E i \in 1..Len(members) : members[i][1] = key
Member(members, key) ==
    members[CHOOSE i \in 1..Len(members) : members[i][1] = key][2]

Digits == <<"0", "1", "2", "3", "4", "5", "6", "7", "8", "9">>
IsDigit(c) == \E i \in 1..Len(Digits) : Digits[i] = c
DigitValue(c) == (CHOOSE i \in 1..Len(Digits) : Digits[i] = c) - 1

\* float(str) for the numeric texts of the model: an optional sign, then
\* "d", "d.d", "d.dd", "nan", "inf" or "infinity" in any letter case
\* (surrounding whitespace allowed); every other text of the model is one
\* float() rejects with ValueError
FloatOfStr(s) ==
    LET t == Strip(s)
        signed == t # << >> /\ t[1] \in {"+", "-"}
        sign == IF signed /\ t[1] = "-" THEN -1 ELSE 1
        u == IF signed THEN Tail(t) ELSE t
        number(n) == [exc |-> "none", value |-> Hundredths(sign * n)]
    IN  IF Len(u) = 1 /\ IsDigit(u[1])
        THEN number(100 * DigitValue(u[1]))
        ELSE IF Len(u) = 3 /\ IsDigit(u[1]) /\ u[2] = "." /\ IsDigit(u[3])
        THEN number(100 * DigitValue(u[1]) + 10 * DigitValue(u[3]))
        ELSE IF Len(u) = 4 /\ IsDigit(u[1]) /\ u[2] = "." /\ IsDigit(u[3]) /\ IsDigit(u[4])
        THEN number(100 * DigitValue(u[1]) + 10 * DigitValue(u[3]) + DigitValue(u[4]))
        ELSE IF Upper(u) = <<"N", "A", "N">>
        THEN [exc |-> "none", value |-> NaN]
        ELSE IF Upper(u) \in {<<"I", "N", "F">>, <<"I", "N", "F", "I", "N", "I", "T", "Y">>}
        THEN [exc |-> "none", value |-> [num |-> sign, den |-> 0]]
        ELSE [exc |-> "ValueError", value |-> NaN]

\* float(x) of a parsed JSON value
Float(v) ==
    CASE v.t = "num" -> [exc |-> "none", value |-> Hundredths(v.n)]
      [] v.t = "nan" -> [exc |-> "none", value |-> NaN]
      [] v.t = "inf" -> [exc |-> "none", value |-> [num |-> v.n, den |-> 0]]
      [] v.t = "bool" -> [exc |-> "none", value |-> Fraction(v.n, 1)]
      [] v.t = "str" -> FloatOfStr(v.s)
      [] OTHER -> [exc |-> "TypeError", value |-> NaN]

\* verifier.py line 118: result.get("confidence", 0.5)
DefaultConfidence == 50

\* the dict both except clauses of verify_claim return
UnknownVerification(claim) ==
    [claim |-> claim, status |-> "unknown", confidence |-> Hundredths(0),
     evidence |-> JArr(<< >>)]

\* the try body of verify_claim from line 108 on, given the text returned
ParseVerification(claim, content) ==
    LET parsed == JsonLoads(content)
        result == parsed.value
        failed(e) == [exc |-> e, verification |-> UnknownVerification(claim)]
    IN  IF parsed.exc # "none" THEN failed("JSONDecodeError")
        ELSE IF result.t # "obj" THEN failed("TypeError")
        ELSE IF ~HasKey(result.o, "status") THEN failed("KeyError")
        ELSE IF Member(result.o, "status").t # "str" THEN failed("AttributeError")
        ELSE IF Upper(Member(result.o, "status").s) \notin VerificationStatusNames
             THEN failed("KeyError")
        ELSE LET confidence ==
                     IF HasKey(result.o, "confidence")
                     THEN Float(Member(result.o, "confidence"))
                     ELSE [exc |-> "none", value |-> Hundredths(DefaultConfidence)]
             IN  IF confidence.exc # "none" THEN failed(confidence.exc)
                 ELSE [exc |-> "none",
                       verification |->
                           [claim |-> claim,
                            status |-> VerificationStatus(Upper(Member(result.o, "status").s)),
                            confidence |-> confidence.value,
                            evidence |-> IF HasKey(result.o, "evidence")
                                         THEN Member(result.o, "evidence")
                                         ELSE JArr(<< >>)]]

\* the exceptions the clause "except (json.JSONDecodeError, KeyError, ValueError)" catches
ParseErrors == {"JSONDecodeError", "KeyError", "ValueError"}

\* verify_claim(claim, context_docs, provider), given the outcome of the one
\* provider.complete call it makes.  The first except clause logs
\* response.content: when the exception it caught came from complete itself,
\* response is unbound and the handler raises UnboundLocalError.  The
\* second clause, "except Exception", lets a BaseException through.
verify_claim(claim, context_docs, reply) ==
    IF reply.exc # "none"
    THEN IF reply.exc \in ParseErrors
         THEN [exc |-> "UnboundLocalError", verification |-> UnknownVerification(claim)]
         ELSE IF reply.exc \in BaseExceptions
         THEN [exc |-> reply.exc, verification |-> UnknownVerification(claim)]
         ELSE [exc |-> "none", verification |-> UnknownVerification(claim)]
    ELSE [exc |-> "none", verification |-> ParseVerification(claim, reply.content).verification]

\* verify_all_claims leaving out the claims whose judgment failed
RECURSIVE verify_all_claims_drop_failed(_, _, _)
verify_all_claims_drop_failed(claims, context_docs, replies) ==
    IF claims = << >> THEN [exc |-> "none", verifications |-> << >>, calls |-> 0]
    ELSE LET first == verify_claim(Head(claims), context_docs, Head(replies))
         IN  IF first.exc # "none"
             THEN [exc |-> first.exc, verifications |-> << >>, calls |-> 1]
             ELSE LET rest == verify_all_claims_drop_failed(Tail(claims), context_docs,
                                                           Tail(replies))
                  IN  [exc |-> rest.exc,
                       verifications |->
                           (IF first.verification.status = "unknown" THEN << >>
                            ELSE <<first.verification>>) \o rest.verifications,
                       calls |-> 1 + rest.calls]

\* verify_all_claims(claims, context_docs, provider): one verify_claim per
\* claim, in order; replies[i] is the outcome of the i-th provider.complete
\* call.  calls is the number of provider.complete calls made.
RECURSIVE verify_all_claims(_, _, _)
verify_all_claims(claims, context_docs, replies) ==
    IF claims = << >> THEN [exc |-> "none", verifications |-> << >>, calls |-> 0]
    ELSE LET first == verify_claim(Head(claims), context_docs, Head(replies))
         IN  IF first.exc # "none"
             THEN [exc |-> first.exc, verifications |-> << >>, calls |-> 1]
             ELSE LET rest == verify_all_claims(Tail(claims), context_docs, Tail(replies))
                  IN  [exc |-> rest.exc,
                       verifications |-> <<first.verification>> \o rest.verifications,
                       calls |-> 1 + rest.calls]

----------------------------------------------------------------------------
(* Result Aggregator: graphs/nodes/scorer.py *)

\* score_map giving an Unknown verification the base score 0.0
score_map_unknown_zero(status) ==
    CASE status = "supported" -> Fraction(1, 1)
      [] status = "partially_supported" -> Fraction(1, 2)
      [] status = "unsupported" -> Fraction(0, 1)
      [] status = "unknown" -> Fraction(0, 1)

\* score_map of calculate_faithfulness_score
score_map(status) ==
    CASE status = "supported" -> Fraction(1, 1)
      [] status = "partially_supported" -> Fraction(1, 2)
      [] status = "unsupported" -> Fraction(0, 1)
      [] status = "unknown" -> Fraction(3, 10)

\* scorer.py line 58: weight = max(confidence, 0.1), in hundredths
MinWeight == 10

\* max(a, b) of two floats: b when b > a, else a
Max(a, b) == IF FloatGt(b, a) THEN b ELSE a

\* the loop of calculate_faithfulness_score: weighted_sum and total_weight
\* after the verifications, starting from the given values
RECURSIVE weighted_sum(_, _)
weighted_sum(verifications, sum) ==
    IF verifications = << >> THEN sum
    ELSE LET weight == Max(Head(verifications).confidence, Hundredths(MinWeight))
             base_score == score_map(Head(verifications).status)
         IN  weighted_sum(Tail(verifications), FloatAdd(sum, FloatMul(base_score, weight)))

RECURSIVE total_weight(_, _)
total_weight(verifications, sum) ==
    IF verifications = << >> THEN sum
    ELSE LET weight == Max(Head(verifications).confidence, Hundredths(MinWeight))
         IN  total_weight(Tail(verifications), FloatAdd(sum, weight))

\* the float 0.0
Zero == [num |-> 0, den |-> 1]

\* calculate_faithfulness_score
calculate_faithfulness_score(verifications) ==
    IF verifications = << >> THEN Zero
    ELSE IF total_weight(verifications, Zero) = Zero THEN Zero
    ELSE FloatDiv(weighted_sum(verifications, Zero), total_weight(verifications, Zero))

\* scorer.py line 98: confidence > 0.7, in hundredths
HighConfidence == 70
\* scorer.py line 113: problematic_ratio > 0.3, in tenths
ProblematicRatio == 3

CountStatus(verifications, statuses) ==
    Cardinality({i \in 1..Len(verifications) : verifications[i].status \in statuses})

\* detect_hallucination with both thresholds included: confidence >= 0.7,
\* problematic_ratio >= 0.3
detect_hallucination_at_threshold(verifications) ==
    IF verifications = << >> THEN FALSE
    ELSE IF \E i \in 1..Len(verifications) :
                /\ verifications[i].status = "unsupported"
                /\ FloatGe(verifications[i].confidence, Hundredths(HighConfidence))
    THEN TRUE
    ELSE LET problematic == CountStatus(verifications, {"unsupported", "partially_supported"})
             problematic_ratio == Fraction(problematic, Len(verifications))
         IN  FloatGe(problematic_ratio, Fraction(ProblematicRatio, 10))

\* detect_hallucination looking at the share of problematic claims only
detect_hallucination_ratio_only(verifications) ==
    IF verifications = << >> THEN FALSE
    ELSE LET problematic == CountStatus(verifications, {"unsupported", "partially_supported"})
             problematic_ratio == Fraction(problematic, Len(verifications))
         IN  FloatGt(problematic_ratio, Fraction(ProblematicRatio, 10))

\* detect_hallucination
detect_hallucination(verifications) ==
    IF verifications = << >> THEN FALSE
    ELSE IF \E i \in 1..Len(verifications) :
                /\ verifications[i].status = "unsupported"
                /\ FloatGt(verifications[i].confidence, Hundredths(HighConfidence))
    THEN TRUE
    ELSE LET problematic == CountStatus(verifications, {"unsupported", "partially_supported"})
             problematic_ratio == Fraction(problematic, Len(verifications))
         IN  FloatGt(problematic_ratio, Fraction(ProblematicRatio, 10))

\* scorer.py line 163: at most 5 unsupported claims are listed
MaxListed == 5
\* scorer.py line 164: each listed claim is cut to 100 characters
MaxClaimChars == 100

\* round(x * scale) of the finite float x, a tie going to the even neighbour
Rounded(x, scale) ==
    LET q == (x.num * scale) \div x.den
        r == (x.num * scale) % x.den
    IN  IF 2 * r < x.den THEN q
        ELSE IF 2 * r > x.den THEN q + 1
        ELSE IF q % 2 = 0 THEN q ELSE q + 1

\* str(n) of an int n >= 0
RECURSIVE IntText(_)
IntText(n) ==
    IF n < 10 THEN <<Digits[n + 1]>>
    ELSE Append(IntText(n \div 10), Digits[(n % 10) + 1])

RECURSIVE Power10(_)
Power10(k) == IF k = 0 THEN 1 ELSE 10 * Power10(k - 1)

\* the digits of n, zero-filled on the left to the given width
RECURSIVE ZeroFilled(_, _)
ZeroFilled(n, width) ==
    IF width = 0 THEN << >>
    ELSE Append(ZeroFilled(n \div 10, width - 1), Digits[(n % 10) + 1])

\* format(x, ".<decimals>f") of a float
FormatFixed(x, decimals) ==
    IF IsNaN(x) THEN <<"n", "a", "n">>
    ELSE IF ~IsFinite(x)
    THEN (IF x.num < 0 THEN <<"-">> ELSE << >>) \o <<"i", "n", "f">>
    ELSE LET r == Rounded(x, Power10(decimals))
             m == Abs(r)
         IN  (IF r < 0 THEN <<"-">> ELSE << >>)
             \o IntText(m \div Power10(decimals)) \o <<".">>
             \o ZeroFilled(m % Power10(decimals), decimals)

\* generate_reasoning_trace listing the partially supported claims as well
generate_reasoning_trace_problematic(verifications, score) ==
    LET total == Len(verifications)
        count(status) == CountStatus(verifications, {status})
        pct(status) ==
            FormatFixed(FloatMul(Fraction(count(status), total), Fraction(100, 1)), 1)
        unsupported_claims ==
            SelectSeq(verifications,
                      LAMBDA v : v.status \in {"unsupported", "partially_supported"})
        listed == Prefix(unsupported_claims, MaxListed)
    IN  IF total = 0 THEN [exc |-> "ZeroDivisionError", trace |-> << >>]
        ELSE [exc |-> "none",
              trace |-> Some(
                [score |-> FormatFixed(score, 2),
                 total |-> total,
                 supported |-> <<count("supported"), pct("supported")>>,
                 partially_supported |->
                     <<count("partially_supported"), pct("partially_supported")>>,
                 unsupported |-> <<count("unsupported"), pct("unsupported")>>,
                 unknown |-> <<count("unknown"), pct("unknown")>>,
                 unsupported_claims |->
                     [i \in 1..Len(listed) |-> Prefix(listed[i].claim, MaxClaimChars)],
                 more |-> IF Len(unsupported_claims) > MaxListed
                          THEN Some(Len(unsupported_claims) - MaxListed) ELSE None])]

\* generate_reasoning_trace: the report, as the values its lines print.  The
\* percentages divide by the number of verifications, which raises
\* ZeroDivisionError when there is none.
generate_reasoning_trace(verifications, score) ==
    LET total == Len(verifications)
        count(status) == CountStatus(verifications, {status})
        pct(status) ==
            FormatFixed(FloatMul(Fraction(count(status), total), Fraction(100, 1)), 1)
        unsupported_claims == SelectSeq(verifications, LAMBDA v : v.status = "unsupported")
        listed == Prefix(unsupported_claims, MaxListed)
    IN  IF total = 0 THEN [exc |-> "ZeroDivisionError", trace |-> << >>]
        ELSE [exc |-> "none",
              trace |-> Some(
                [score |-> FormatFixed(score, 2),
                 total |-> total,
                 supported |-> <<count("supported"), pct("supported")>>,
                 partially_supported |->
                     <<count("partially_supported"), pct("partially_supported")>>,
                 unsupported |-> <<count("unsupported"), pct("unsupported")>>,
                 unknown |-> <<count("unknown"), pct("unknown")>>,
                 unsupported_claims |->
                     [i \in 1..Len(listed) |-> Prefix(listed[i].claim, MaxClaimChars)],
                 more |-> IF Len(unsupported_claims) > MaxListed
                          THEN Some(Len(unsupported_claims) - MaxListed) ELSE None])]

----------------------------------------------------------------------------
(* Evidence Retriever: graphs/nodes/retriever.py *)

\* RetrieverNode.__init__ defaults: top_k_per_claim and score_threshold (hundredths)
top_k_per_claim == 3
score_threshold == 30

\* search_texts with the claims placed before the user_query
search_texts_claims_first(user_query, claims) ==
    claims \o (IF user_query # << >> THEN <<user_query>> ELSE << >>)

\* search_texts of RetrieverNode.run: user_query when it is not empty, then the claims
search_texts(user_query, claims) ==
    (IF user_query # << >> THEN <<user_query>> ELSE << >>) \o claims

InSeq(x, seq) == \E i \in 1..Len(seq) : seq[i] = x

\* the inner loop of RetrieverNode.run appending every text, seen or not
AddUnseen_all(context_docs, results) == context_docs \o results

\* the inner loop of RetrieverNode.run: append the texts not seen before
RECURSIVE AddUnseen(_, _)
AddUnseen(context_docs, results) ==
    IF results = << >> THEN context_docs
    ELSE AddUnseen(IF InSeq(Head(results), context_docs) THEN context_docs
                   ELSE Append(context_docs, Head(results)),
                   Tail(results))

\* the search loop of RetrieverNode.run over the queries from position i on:
\* hits[i] is the outcome of the i-th qdrant_store.search call
RECURSIVE SearchLoop(_, _, _, _, _)
SearchLoop(texts, hits, i, context_docs, log) ==
    IF i > Len(texts) THEN [exc |-> "none", context_docs |-> context_docs, log |-> log]
    ELSE LET call == [query |-> texts[i], top_k |-> top_k_per_claim,
                      score_threshold |-> score_threshold]
         IN  IF hits[i].exc # "none"
             THEN [exc |-> hits[i].exc, context_docs |-> context_docs,
                   log |-> Append(log, call)]
             ELSE SearchLoop(texts, hits, i + 1, AddUnseen(context_docs, hits[i].docs),
                             Append(log, call))

\* RetrieverNode.run without the early return on an empty list of queries
retriever_run_embed_first(st, embedded, hits) ==
    LET claims == IF IsNone(st.claims) THEN << >> ELSE Get(st.claims)
        texts == search_texts(st.user_query, claims)
    IN  IF embedded # "none"
        THEN [exc |-> embedded, state |-> st, embed_calls |-> <<texts>>,
              search_log |-> << >>]
        ELSE LET found == SearchLoop(texts, hits, 1, << >>, << >>)
             IN  [exc |-> found.exc,
                  state |-> IF found.exc = "none"
                            THEN [st EXCEPT !.context_docs = found.context_docs]
                            ELSE st,
                  embed_calls |-> <<texts>>,
                  search_log |-> found.log]

\* RetrieverNode.run on the state st, given the outcome of the embed call
\* (embedded is "none" or the exception it raises) and of the searches.
\* The result replaces st.context_docs.
retriever_run(st, embedded, hits) ==
    LET claims == IF IsNone(st.claims) THEN << >> ELSE Get(st.claims)
        texts == search_texts(st.user_query, claims)
    IN  IF texts = << >>
        THEN [exc |-> "none", state |-> [st EXCEPT !.context_docs = << >>],
              embed_calls |-> << >>, search_log |-> << >>]
        ELSE IF embedded # "none"
        THEN [exc |-> embedded, state |-> st, embed_calls |-> <<texts>>,
              search_log |-> << >>]
        ELSE LET found == SearchLoop(texts, hits, 1, << >>, << >>)
             IN  [exc |-> found.exc,
                  state |-> IF found.exc = "none"
                            THEN [st EXCEPT !.context_docs = found.context_docs]
                            ELSE st,
                  embed_calls |-> <<texts>>,
                  search_log |-> found.log]

----------------------------------------------------------------------------
(* The nodes' run methods on an AuditState *)

\* DecomposerNode.run emptying the context documents as well
decomposer_run_clearing(st, reply) ==
    LET got == decompose_claims(st.llm_response, reply)
    IN  [exc |-> got.exc,
         state |-> IF got.exc = "none"
                   THEN [st EXCEPT !.claims = Some(got.claims), !.context_docs = << >>]
                   ELSE st]

\* DecomposerNode.run
decomposer_run(st, reply) ==
    LET got == decompose_claims(st.llm_response, reply)
    IN  [exc |-> got.exc,
         state |-> IF got.exc = "none" THEN [st EXCEPT !.claims = Some(got.claims)] ELSE st]

\* VerifierNode.run
verifier_run(st, replies) ==
    LET got == verify_all_claims(Get(st.claims), st.context_docs, replies)
    IN  [exc |-> got.exc,
         calls |-> got.calls,
         state |-> IF got.exc = "none"
                   THEN [st EXCEPT !.claim_verifications = Some(got.verifications)]
                   ELSE st]

\* ScorerNode.run emptying the list of verifications it has scored
scorer_run_draining(st) ==
    LET verifications == Get(st.claim_verifications)
        score == calculate_faithfulness_score(verifications)
        hallucination == detect_hallucination(verifications)
        reasoning == generate_reasoning_trace(verifications, score)
    IN  [exc |-> reasoning.exc,
         state |-> IF reasoning.exc = "none"
                   THEN [st EXCEPT !.claim_verifications = Some(<< >>),
                                   !.faithfulness_score = Some(score),
                                   !.hallucination_detected = Some(hallucination),
                                   !.reasoning_trace = reasoning.trace]
                   ELSE st]

\* ScorerNode.run carrying on when the reasoning trace could not be generated
scorer_run_partial(st) ==
    LET verifications == Get(st.claim_verifications)
        score == calculate_faithfulness_score(verifications)
        hallucination == detect_hallucination(verifications)
        reasoning == generate_reasoning_trace(verifications, score)
    IN  [exc |-> "none",
         state |-> [st EXCEPT !.faithfulness_score = Some(score),
                              !.hallucination_detected = Some(hallucination),
                              !.reasoning_trace = reasoning.trace]]

\* ScorerNode.run
scorer_run(st) ==
    LET verifications == Get(st.claim_verifications)
        score == calculate_faithfulness_score(verifications)
        hallucination == detect_hallucination(verifications)
        reasoning == generate_reasoning_trace(verifications, score)
    IN  [exc |-> reasoning.exc,
         state |-> IF reasoning.exc = "none"
                   THEN [st EXCEPT !.faithfulness_score = Some(score),
                                   !.hallucination_detected = Some(hallucination),
                                   !.reasoning_trace = reasoning.trace]
                   ELSE st]

----------------------------------------------------------------------------
(* Pipeline Orchestrator: graphs/audit_graph.py *)

\* build_audit_graph with the retrieve node placed after the verify node
build_audit_graph_verify_first(embedding, qdrant) ==
    LET has_retrieval == embedding /\ qdrant
    IN  IF has_retrieval
        THEN [entry |-> "decompose",
              nodes |-> {"decompose", "retrieve", "verify", "score"},
              edges |-> [n \in {"decompose", "retrieve", "verify", "score"} |->
                           CASE n = "decompose" -> "verify"
                             [] n = "verify" -> "retrieve"
                             [] n = "retrieve" -> "score"
                             [] n = "score" -> "END"]]
        ELSE [entry |-> "decompose",
              nodes |-> {"decompose", "verify", "score"},
              edges |-> [n \in {"decompose", "verify", "score"} |->
                           CASE n = "decompose" -> "verify"
                             [] n = "verify" -> "score"
                             [] n = "score" -> "END"]]

\* build_audit_graph adding the retrieve node when either collaborator is supplied
build_audit_graph_either(embedding, qdrant) ==
    LET has_retrieval == embedding \/ qdrant
    IN  IF has_retrieval
        THEN [entry |-> "decompose",
              nodes |-> {"decompose", "retrieve", "verify", "score"},
              edges |-> [n \in {"decompose", "retrieve", "verify", "score"} |->
                           CASE n = "decompose" -> "retrieve"
                             [] n = "retrieve" -> "verify"
                             [] n = "verify" -> "score"
                             [] n = "score" -> "END"]]
        ELSE [entry |-> "decompose",
              nodes |-> {"decompose", "verify", "score"},
              edges |-> [n \in {"decompose", "verify", "score"} |->
                           CASE n = "decompose" -> "verify"
                             [] n = "verify" -> "score"
                             [] n = "score" -> "END"]]

\* build_audit_graph: the entry point and the edges of the compiled graph
build_audit_graph(embedding, qdrant) ==
    LET has_retrieval == embedding /\ qdrant
    IN  IF has_retrieval
        THEN [entry |-> "decompose",
              nodes |-> {"decompose", "retrieve", "verify", "score"},
              edges |-> [n \in {"decompose", "retrieve", "verify", "score"} |->
                           CASE n = "decompose" -> "retrieve"
                             [] n = "retrieve" -> "verify"
                             [] n = "verify" -> "score"
                             [] n = "score" -> "END"]]
        ELSE [entry |-> "decompose",
              nodes |-> {"decompose", "verify", "score"},
              edges |-> [n \in {"decompose", "verify", "score"} |->
                           CASE n = "decompose" -> "verify"
                             [] n = "verify" -> "score"
                             [] n = "score" -> "END"]]

\* the graph the servicer was given
audit_graph == build_audit_graph(embedding_service, qdrant_store)

\* initial_state of run_audit
initial_state(req) ==
    [request_id |-> req.request_id,
     user_query |-> req.query,
     llm_response |-> req.response,
     context_docs |-> req.context,
     claims |-> None,
     claim_verifications |-> None,
     faithfulness_score |-> None,
     hallucination_detected |-> None,
     reasoning_trace |-> None]

----------------------------------------------------------------------------
(* The inputs of the model *)

\* the SubmitAudit calls of the model
Calls == {1, 2}

\* texts: a response that is long enough to be a claim, one that is not,
\* one that is blank; a query; two claims and two too short ones; two documents
RESPONSE_LONG == <<"P", "a", "r", "i", "s", " ", "i", "s", " ", "b", "i", "g", ".">>
RESPONSE_SHORT == <<"Y", "e", "s", ".">>
RESPONSE_BLANK == <<" ">>
QUERY == <<"b", "i", "g", "?">>
CLAIM_A == <<"P", "a", "r", "i", "s", " ", "b", "i", "g">>
CLAIM_B == <<" ", "i", "s", " ", "b", "i", "g", " ">>
CLAIM_SHORT == <<" ", "P", "a", "r", "i", "s", " ">>
DOC_1 == <<"d", "1">>
DOC_2 == <<"d", "2">>

\* the requests of the pipeline specification
Requests ==
    [request_id : {"req-1"},
     query : {<< >>, QUERY},
     response : {RESPONSE_LONG, RESPONSE_SHORT},
     context : {<< >>, <<DOC_1>>}]

\* all sequences over S of length at most n
SeqsUpTo(S, n) == UNION {[1..k -> S] : k \in 0..n}

\* what provider.complete does in the Decompose stage of the pipeline
\* specification: it raises, or returns a text that is not JSON, JSON of the
\* wrong type, an array holding a number, an array with an entry that is too
\* short, or an array of at most MaxClaims claims
PipelineItems == {JStr(CLAIM_A), JStr(CLAIM_B)}
DecomposeReplies ==
    {Raises(e) : e \in ProviderErrors}
    \cup {Returned(NotJson), Returned(JsonText(JObj(<< >>))),
          Returned(JsonText(JArr(<<JNum(100)>>))),
          Returned(JsonText(JArr(<<JStr(CLAIM_SHORT), JStr(CLAIM_A)>>)))}
    \cup {Returned(JsonText(JArr(a))) : a \in SeqsUpTo(PipelineItems, MaxClaims)}

\* a judgment as the verifier prompt asks for it
Judgment(status, confidence) ==
    JsonText(JObj(<< <<"status", JStr(status)>>, <<"confidence", JNum(confidence)>>,
                     <<"evidence", JArr(<<JStr(DOC_1)>>)>> >>))

\* what provider.complete does in the Verify stage of the pipeline specification
VerifyReplies ==
    {Raises("ConnectionError"), Raises("ValueError"), Returned(NotJson),
     Returned(Judgment(SUPPORTED_NAME, 90)),
     Returned(Judgment(UNSUPPORTED_NAME, 80)),
     Returned(Judgment(<<"p", "a", "r", "t", "i", "a", "l", "l", "y", "_",
                         "s", "u", "p", "p", "o", "r", "t", "e", "d">>, 50))}

\* what embedding_service.embed does: it returns the vectors, or raises
EmbedReplies == {"none", "RuntimeError"}

\* what qdrant_store.search does: it returns at most MaxHits stored texts, or raises
Found(docs) == [exc |-> "none", docs |-> docs]
SearchReplies ==
    {Found(d) : d \in SeqsUpTo({DOC_1, DOC_2}, MaxHits)}
    \cup {[exc |-> "RuntimeError", docs |-> << >>]}

\* int((time.time() - start_time) * 1000): the clock is not modelled
ElapsedMs == {0, 1}

----------------------------------------------------------------------------
(* gRPC servicer: grpc/server.py, and the steps of a run *)

\* an assignment that replaces the dict by one holding the new entry alone
DictSet_alone(d, key, value) == [k \in {key} |-> value]

\* d[key] = value on a dict
DictSet(d, key, value) ==
    [k \in DOMAIN d \cup {key} |-> IF k = key THEN value ELSE d[k]]

\* the dict SubmitAudit stores for a run that returned
stored_result(st, id, ms) ==
    [request_id |-> st.request_id,
     user_query |-> st.user_query,
     llm_response |-> st.llm_response,
     context_docs |-> st.context_docs,
     claims |-> st.claims,
     claim_verifications |-> st.claim_verifications,
     faithfulness_score |-> st.faithfulness_score,
     hallucination_detected |-> st.hallucination_detected,
     reasoning_trace |-> st.reasoning_trace,
     audit_id |-> id,
     processing_time_ms |-> ms]

\* the except clause of SubmitAudit: store the error, report "failed"
SubmitFails(p, exc) ==
    /\ raised' = [raised EXCEPT ![p] = exc]
    /\ audit_results' =
           DictSet(audit_results, Get(audit_id[p]),
                   [error |-> exc, request_id |-> request[p].request_id])
    /\ submission' = [submission EXCEPT ![p] =
           Some([audit_id |-> Get(audit_id[p]), status |-> "failed", queue_position |-> 0])]
    /\ pc' = [pc EXCEPT ![p] = "done"]

\* an exception the clause "except Exception" of SubmitAudit does not catch
\* leaves SubmitAudit: nothing is stored and no AuditSubmission is returned
SubmitEscapes(p, exc) ==
    /\ raised' = [raised EXCEPT ![p] = exc]
    /\ pc' = [pc EXCEPT ![p] = "cancelled"]
    /\ UNCHANGED <<audit_results, submission>>

\* a node of the graph has run: the graph follows the node's edge, or the
\* exception leaves graph.ainvoke and run_audit and reaches SubmitAudit
NodeRan(p, node, exc, st) ==
    /\ visited' = [visited EXCEPT ![p] = Append(@, node)]
    /\ IF exc = "none"
       THEN /\ state' = [state EXCEPT ![p] = st]
            /\ pc' = [pc EXCEPT ![p] = audit_graph.edges[node]]
            /\ UNCHANGED <<raised, audit_results, submission>>
       ELSE /\ IF exc \in BaseExceptions THEN SubmitEscapes(p, exc)
               ELSE SubmitFails(p, exc)
            /\ UNCHANGED state

\* SubmitAudit taking the audit id from the request_id of the request
SubmitAudit_request_keyed(p, reqs) ==
    /\ pc[p] = "idle"
    /\ \E req \in reqs :
        /\ request' = [request EXCEPT ![p] = req]
        /\ state' = [state EXCEPT ![p] = initial_state(req)]
        /\ audit_id' = [audit_id EXCEPT ![p] =
               Some(IF req.request_id = "req-1" THEN 1 ELSE 2)]
    /\ uuid_counter' = uuid_counter + 1
    /\ pc' = [pc EXCEPT ![p] = audit_graph.entry]
    /\ UNCHANGED <<embedding_service, qdrant_store, raised, submission, visited,
                   llm_log, embed_calls, search_log, audit_results, result_reply,
                   search_results, ollama_log>>

\* SubmitAudit up to the first node of the graph: the audit id, the
\* initial state of run_audit, the entry point of the graph
SubmitAudit(p, reqs) ==
    /\ pc[p] = "idle"
    /\ \E req \in reqs :
        /\ request' = [request EXCEPT ![p] = req]
        /\ state' = [state EXCEPT ![p] = initial_state(req)]
    /\ uuid_counter' = uuid_counter + 1
    /\ audit_id' = [audit_id EXCEPT ![p] = Some(uuid_counter + 1)]
    /\ pc' = [pc EXCEPT ![p] = audit_graph.entry]
    /\ UNCHANGED <<embedding_service, qdrant_store, raised, submission, visited,
                   llm_log, embed_calls, search_log, audit_results, result_reply,
                   search_results, ollama_log>>

\* the node "decompose"
Decompose(p, replies) ==
    /\ pc[p] = "decompose"
    /\ \E reply \in replies :
        LET out == decomposer_run(state[p], reply)
        IN  /\ llm_log' = [llm_log EXCEPT ![p] =
                   Append(@, [caller |-> "decompose", reply |-> reply])]
            /\ NodeRan(p, "decompose", out.exc, out.state)
    /\ UNCHANGED <<embedding_service, qdrant_store, request, audit_id, embed_calls,
                   search_log, uuid_counter, result_reply,
                   search_results, ollama_log>>

\* the number of searches the node "retrieve" of run p has to make
SearchCount(p) ==
    LET claims == IF IsNone(state[p].claims) THEN << >> ELSE Get(state[p].claims)
    IN  Len(search_texts(state[p].user_query, claims))

\* the node "retrieve", given the outcome of the embed call and of the searches
RetrieveWith(p, embedded, hits) ==
    /\ pc[p] = "retrieve"
    /\ LET out == retriever_run(state[p], embedded, hits)
       IN  /\ embed_calls' = [embed_calls EXCEPT ![p] = @ \o out.embed_calls]
           /\ search_log' = [search_log EXCEPT ![p] = @ \o out.search_log]
           /\ NodeRan(p, "retrieve", out.exc, out.state)
    /\ UNCHANGED <<embedding_service, qdrant_store, request, audit_id, llm_log,
                   uuid_counter, result_reply, ollama_log>>

\* the node "retrieve"
Retrieve(p, embeds, searches) ==
    /\ pc[p] = "retrieve"
    /\ \E embedded \in embeds, hits \in [1..SearchCount(p) -> searches] :
        RetrieveWith(p, embedded, hits)
    /\ UNCHANGED search_results

\* the node "retrieve", what the searches returned being kept in search_results
RetrieveRecorded(p, embeds, searches) ==
    /\ pc[p] = "retrieve"
    /\ \E embedded \in embeds, hits \in [1..SearchCount(p) -> searches] :
        /\ RetrieveWith(p, embedded, hits)
        /\ search_results' = [search_results EXCEPT ![p] =
               @ \o [i \in 1..Len(search_log'[p]) |-> hits[i]]]

\* the node "verify"
Verify(p, replies) ==
    /\ pc[p] = "verify"
    /\ \E given \in [1..Len(Get(state[p].claims)) -> replies] :
        LET out == verifier_run(state[p], given)
        IN  /\ llm_log' = [llm_log EXCEPT ![p] =
                   @ \o [i \in 1..out.calls |-> [caller |-> "verify", reply |-> given[i]]]]
            /\ NodeRan(p, "verify", out.exc, out.state)
    /\ UNCHANGED <<embedding_service, qdrant_store, request, audit_id, embed_calls,
                   search_log, uuid_counter, result_reply,
                   search_results, ollama_log>>

\* the node "score"
Score(p) ==
    /\ pc[p] = "score"
    /\ LET out == scorer_run(state[p])
       IN  NodeRan(p, "score", out.exc, out.state)
    /\ UNCHANGED <<embedding_service, qdrant_store, request, audit_id, llm_log,
                   embed_calls, search_log, uuid_counter, result_reply,
                   search_results, ollama_log>>

\* the graph reached END: run_audit logs the score and returns the final
\* state, SubmitAudit stores it and reports "completed"
Finish(p) ==
    /\ pc[p] = "END"
    /\ IF IsNone(state[p].faithfulness_score)
       THEN SubmitFails(p, "TypeError")
       ELSE /\ \E ms \in ElapsedMs :
                 audit_results' =
                     DictSet(audit_results, Get(audit_id[p]),
                             stored_result(state[p], Get(audit_id[p]), ms))
            /\ submission' = [submission EXCEPT ![p] =
                   Some([audit_id |-> Get(audit_id[p]), status |-> "completed",
                         queue_position |-> 0])]
            /\ pc' = [pc EXCEPT ![p] = "done"]
            /\ UNCHANGED raised
    /\ UNCHANGED <<embedding_service, qdrant_store, request, audit_id, state, visited,
                   llm_log, embed_calls, search_log, uuid_counter, result_reply,
                   search_results, ollama_log>>

\* the caller cancels SubmitAudit, or its deadline expires, while the graph
\* is between two nodes: the task is suspended in "await graph.ainvoke",
\* CancelledError is thrown there and leaves run_audit
Cancel(p) ==
    /\ pc[p] \in audit_graph.nodes
    /\ SubmitEscapes(p, "CancelledError")
    /\ UNCHANGED <<embedding_service, qdrant_store, request, audit_id, state, visited,
                   llm_log, embed_calls, search_log, uuid_counter, result_reply,
                   search_results, ollama_log>>

\* a stage of run p calls OllamaProvider.complete: the HTTP exchange takes
\* place and complete returns or raises
Complete(p, exchanges) ==
    /\ pc[p] \in {"decompose", "verify"}
    /\ Len(ollama_log[p]) = Len(llm_log[p])
    /\ \E exchange \in exchanges :
        ollama_log' = [ollama_log EXCEPT ![p] =
            Append(@, [exchange |-> exchange, outcome |-> complete(exchange)])]
    /\ UNCHANGED <<embedding_service, qdrant_store, request, pc, audit_id, state, raised,
                   submission, visited, llm_log, embed_calls, search_log, uuid_counter,
                   audit_results, result_reply, search_results>>

\* the outcome of the complete call the stage of run p is waiting for
Completion(p) ==
    IF Len(ollama_log[p]) > Len(llm_log[p])
    THEN {ollama_log[p][Len(ollama_log[p])].outcome}
    ELSE {}

\* server.py lines 152 to 156: the grade thresholds 0.9, 0.7, 0.5, in hundredths
GradeA == 90
GradeB == 70
GradeC == 50

\* status_map of GetAuditResult: VerificationStatus -> proto enum
status_map(status) ==
    CASE status = "supported" -> "VERIFICATION_STATUS_SUPPORTED"
      [] status = "unsupported" -> "VERIFICATION_STATUS_UNSUPPORTED"
      [] status = "partially_supported" -> "VERIFICATION_STATUS_UNSUPPORTED"
      [] status = "unknown" -> "VERIFICATION_STATUS_UNSPECIFIED"

\* evaluator_pb2.AuditResult(...): a field the call does not pass is None.
\* completed_at_ms is left out, the clock is not modelled.
AuditResult(id, request_id, status, score, grade, claims, trace, ms) ==
    [audit_id |-> id, request_id |-> request_id, status |-> status,
     faithfulness_score |-> score, grade |-> grade, claims |-> claims,
     reasoning_trace |-> trace, processing_time_ms |-> ms]

\* the error branch of GetAuditResult answering with the status of a
\* completed audit, a score and an empty list of claims
failed_result_scored(id, result) ==
    AuditResult(Some(id), Some(result.request_id), Some("AUDIT_STATUS_COMPLETED"),
                Some(Zero), None, Some(<< >>), Some(<<"Error: ", result.error>>), None)

\* the error branch of GetAuditResult: the message for a stored error
failed_result(id, result) ==
    AuditResult(Some(id), Some(result.request_id), Some("AUDIT_STATUS_FAILED"),
                None, None, None, Some(<<"Error: ", result.error>>), None)

\* the rest of GetAuditResult: the message for a stored final state
completed_result(id, result) ==
    LET verifications ==
            IF IsNone(result.claim_verifications) THEN << >>
            ELSE Get(result.claim_verifications)
        claims ==
            [i \in 1..Len(verifications) |->
                [claim |-> verifications[i].claim,
                 status |-> status_map(verifications[i].status),
                 confidence |-> verifications[i].confidence,
                 evidence |-> verifications[i].evidence]]
        score == Get(result.faithfulness_score)
        grade ==
            IF FloatGe(score, Hundredths(GradeA)) THEN "TRUST_GRADE_A"
            ELSE IF FloatGe(score, Hundredths(GradeB)) THEN "TRUST_GRADE_B"
            ELSE IF FloatGe(score, Hundredths(GradeC)) THEN "TRUST_GRADE_C"
            ELSE "TRUST_GRADE_D"
    IN  AuditResult(Some(id), Some(result.request_id), Some("AUDIT_STATUS_COMPLETED"),
                    Some(score), Some(grade), Some(claims), result.reasoning_trace,
                    Some(result.processing_time_ms))

\* what GetAuditResult answers for the audit id, given the store: the
\* gRPC status code and the AuditResult message
get_audit_result(results, id) ==
    IF id \notin DOMAIN results
    THEN [code |-> "NOT_FOUND",
          message |-> AuditResult(None, None, None, None, None, None, None, None)]
    ELSE IF "error" \in DOMAIN results[id]
    THEN [code |-> "OK", message |-> failed_result(id, results[id])]
    ELSE [code |-> "OK", message |-> completed_result(id, results[id])]

\* GetAuditResult: a client asks for the result of one of the audit ids
GetAuditResult(ids) ==
    /\ \E id \in ids :
        result_reply' = Some([asked |-> id] @@ get_audit_result(audit_results, id))
    /\ UNCHANGED <<embedding_service, qdrant_store, request, pc, audit_id, state, raised,
                   submission, visited, llm_log, embed_calls, search_log, uuid_counter,
                   audit_results, search_results, ollama_log>>

----------------------------------------------------------------------------
(* Specifications *)

\* the servicer after construction: the graph is built with or without each
\* retrieval collaborator, the store is empty, no call has started
InitWith(active) ==
    /\ embedding_service \in BOOLEAN
    /\ qdrant_store \in BOOLEAN
    /\ request = [p \in Calls |-> None]
    /\ pc = [p \in Calls |-> IF p \in active THEN "idle" ELSE "off"]
    /\ audit_id = [p \in Calls |-> None]
    /\ state = [p \in Calls |-> None]
    /\ raised = [p \in Calls |-> "none"]
    /\ submission = [p \in Calls |-> None]
    /\ visited = [p \in Calls |-> << >>]
    /\ llm_log = [p \in Calls |-> << >>]
    /\ embed_calls = [p \in Calls |-> << >>]
    /\ search_log = [p \in Calls |-> << >>]
    /\ uuid_counter = 0
    /\ audit_results = << >>
    /\ result_reply = None
    /\ search_results = [p \in Calls |-> << >>]
    /\ ollama_log = [p \in Calls |-> << >>]

\* one SubmitAudit call, from the request to the stored outcome
Init == InitWith({1})

Next ==
    \E p \in Calls :
        \/ SubmitAudit(p, Requests)
        \/ Decompose(p, DecomposeReplies)
        \/ Retrieve(p, EmbedReplies, SearchReplies)
        \/ Verify(p, VerifyReplies)
        \/ Score(p)
        \/ Finish(p)

Spec == Init /\ [][Next]_vars

----------------------------------------------------------------------------
(* The Claim Extractor on a wider range of model outputs *)

CLAIM_FIVE == <<"P", "a", "r", "i", "s">>
CLAIM_SIX == <<"P", "a", "r", "i", "s", ".">>
CLAIM_BLANK == <<" ", " ", " ", " ", " ", " ">>

\* array items: strings around the length limit before and after trimming,
\* and items that are no strings
ExtractStrings ==
    {JStr(t) : t \in {<< >>, CLAIM_BLANK, CLAIM_FIVE, CLAIM_SHORT, CLAIM_SIX,
                      CLAIM_A, CLAIM_B}}
ExtractItems == ExtractStrings \cup {JNull, JNum(0), JNum(100), JBool(TRUE)}

ExtractReplies ==
    {Raises(e) : e \in ProviderErrors}
    \cup {Returned(NotJson)}
    \cup {Returned(JsonText(v)) : v \in {JObj(<< >>), JNum(100), JStr(CLAIM_A), JNull}}
    \cup {Returned(JsonText(JArr(a))) : a \in SeqsUpTo(ExtractItems, MaxItems)}

ExtractRequests ==
    [request_id : {"req-1"},
     query : {QUERY},
     response : {RESPONSE_LONG, RESPONSE_SHORT, RESPONSE_BLANK},
     context : {<< >>}]

\* a SubmitAudit call up to the end of its Decompose stage
NextExtract ==
    \E p \in Calls :
        \/ SubmitAudit(p, ExtractRequests)
        \/ Decompose(p, ExtractReplies)

SpecExtract == Init /\ [][NextExtract]_vars

----------------------------------------------------------------------------
(* The Claim Verifier and the Result Aggregator on a wider range of judgments *)

\* the members of a JSON object holding the key when a value is given
Members(key, value) == IF IsNone(value) THEN << >> ELSE << <<key, Get(value)>> >>

\* a judgment with the given status, confidence and evidence members
JudgmentOf(status, confidence, evidence) ==
    JsonText(JObj(Members("status", status) \o Members("confidence", confidence)
                  \o Members("evidence", evidence)))

MAYBE_NAME == <<"M", "A", "Y", "B", "E">>

\* the status member of a judgment: missing, a member name in upper, lower or
\* mixed case, another word, or no string
JudgeStatuses ==
    {None, Some(JNum(100)), Some(JNull)}
    \cup {Some(JStr(name)) :
            name \in {SUPPORTED_NAME, UNKNOWN_NAME, MAYBE_NAME,
                      <<"u", "n", "s", "u", "p", "p", "o", "r", "t", "e", "d">>,
                      <<"P", "a", "r", "t", "i", "a", "l", "l", "y", "_",
                        "S", "u", "p", "p", "o", "r", "t", "e", "d">>,
                      <<"u", "n", "k", "n", "o", "w", "n">>}}

\* the confidence member of a judgment: missing, a number inside or outside
\* [0, 1], a special float, a text, null, a boolean
JudgeConfidences ==
    {None, Some(JNaN), Some(JInfinity(1)), Some(JInfinity(-1)), Some(JNull),
     Some(JBool(TRUE)), Some(JStr(<<"0", ".", "7">>)), Some(JStr(<<"a", "b", "c">>))}
    \cup {Some(JNum(n)) : n \in {-200, 0, 70, 71, 100, 150}}

\* what provider.complete does in the Verify stage of a run of at most
\* MaxScored claims
ScoreJudgments ==
    {Returned(NotJson),
     Returned(Judgment(SUPPORTED_NAME, 90)),
     Returned(Judgment(UNSUPPORTED_NAME, 80)),
     Returned(Judgment(UNSUPPORTED_NAME, 70)),
     Returned(Judgment(PARTIALLY_SUPPORTED_NAME, 50)),
     Returned(JudgmentOf(Some(JStr(SUPPORTED_NAME)), Some(JNaN), None))}

\* what it does in a run of MaxLong claims
LongJudgments ==
    {Returned(Judgment(SUPPORTED_NAME, 90)),
     Returned(Judgment(PARTIALLY_SUPPORTED_NAME, 50))}

\* what it does in a run of at most MaxJudged claims
RichJudgments ==
    {Raises(e) : e \in ProviderErrors}
    \cup {Returned(JsonText(JArr(<< >>)))}
    \cup {Returned(JudgmentOf(status, Some(JNum(90)), Some(JArr(<<JStr(DOC_1)>>)))) :
            status \in JudgeStatuses}
    \cup {Returned(JudgmentOf(Some(JStr(name)), confidence, None)) :
            name \in {SUPPORTED_NAME, UNSUPPORTED_NAME, UNKNOWN_NAME},
            confidence \in JudgeConfidences}
    \cup ScoreJudgments

\* the judgments drawn for the claims of run p
JudgmentsFor(p) ==
    IF Len(Get(state[p].claims)) <= MaxJudged THEN RichJudgments
    ELSE IF Len(Get(state[p].claims)) <= MaxScored THEN ScoreJudgments
    ELSE LongJudgments

\* the extraction call returns an array of k claims
ClaimArray(k) == JArr([i \in 1..k |-> JStr(IF i % 2 = 1 THEN CLAIM_A ELSE CLAIM_B)])
JudgeDecomposeReplies ==
    {Returned(JsonText(ClaimArray(k))) : k \in (0..MaxScored) \cup {MaxLong}}

JudgeRequests ==
    [request_id : {"req-1"}, query : {QUERY}, response : {RESPONSE_LONG},
     context : {<<DOC_1>>}]

\* a servicer whose graph was built without the retrieval collaborators
InitJudge == InitWith({1}) /\ ~embedding_service /\ ~qdrant_store

NextJudge ==
    \E p \in Calls :
        \/ SubmitAudit(p, JudgeRequests)
        \/ Decompose(p, JudgeDecomposeReplies)
        \/ Verify(p, JudgmentsFor(p))
        \/ Score(p)
        \/ Finish(p)

SpecJudge == InitJudge /\ [][NextJudge]_vars

----------------------------------------------------------------------------
(* The servicer with a client asking for results *)

\* the audit ids a client asks for: one never issued, and those of the calls
AskedIds == 0..Cardinality(Calls)

ServeRequests ==
    [request_id : {"req-1"}, query : {QUERY}, response : {RESPONSE_LONG},
     context : {<<DOC_1>>}]

ServeDecomposeReplies ==
    {Raises("ConnectionError"), Returned(NotJson)}
    \cup {Returned(JsonText(ClaimArray(k))) : k \in 0..MaxClaims}

ServeVerifyReplies ==
    {Raises("ValueError"), Returned(NotJson),
     Returned(Judgment(SUPPORTED_NAME, 90)), Returned(Judgment(UNSUPPORTED_NAME, 80))}

NextServe ==
    \/ \E p \in Calls :
        \/ SubmitAudit(p, ServeRequests)
        \/ Decompose(p, ServeDecomposeReplies)
        \/ Retrieve(p, EmbedReplies, {Found(<<DOC_2>>)})
        \/ Verify(p, ServeVerifyReplies)
        \/ Score(p)
        \/ Finish(p)
    \/ GetAuditResult(AskedIds)

SpecServe == Init /\ [][NextServe]_vars

----------------------------------------------------------------------------
(* Two SubmitAudit calls whose runs interleave *)

TwoRequests ==
    [request_id : {"req-1", "req-2"}, query : {QUERY}, response : {RESPONSE_LONG},
     context : {<<DOC_1>>}]

TwoDecomposeReplies == {Returned(JsonText(ClaimArray(k))) : k \in 1..MaxClaims}

TwoVerifyReplies ==
    {Returned(Judgment(SUPPORTED_NAME, 90)), Returned(Judgment(UNSUPPORTED_NAME, 80))}

\* both calls can start, on a servicer built without the retrieval collaborators
InitTwo == InitWith(Calls) /\ ~embedding_service /\ ~qdrant_store

NextTwo ==
    \E p \in Calls :
        \/ SubmitAudit(p, TwoRequests)
        \/ Decompose(p, TwoDecomposeReplies)
        \/ Verify(p, TwoVerifyReplies)
        \/ Score(p)
        \/ Finish(p)

SpecTwo == InitTwo /\ [][NextTwo]_vars

----------------------------------------------------------------------------
(* The Evidence Retriever on a wider range of search results *)

RetrieveRequests ==
    [request_id : {"req-1"}, query : {<< >>, QUERY}, response : {RESPONSE_LONG},
     context : {<<DOC_1>>}]

\* the extraction call returns an array of at most MaxClaims claims
RetrieveDecomposeReplies == {Returned(JsonText(ClaimArray(k))) : k \in 0..MaxClaims}

\* what qdrant_store.search does: it returns at most MaxFound stored texts,
\* the same text more than once when it is stored more than once, or raises
FoundReplies ==
    {Found(d) : d \in SeqsUpTo({DOC_1, DOC_2}, MaxFound)}
    \cup {[exc |-> "RuntimeError", docs |-> << >>]}

\* a servicer whose graph was built with both retrieval collaborators
InitRetrieve == InitWith({1}) /\ embedding_service /\ qdrant_store

\* a SubmitAudit call up to the end of its Retrieve stage
NextRetrieve ==
    \E p \in Calls :
        \/ SubmitAudit(p, RetrieveRequests)
        \/ Decompose(p, RetrieveDecomposeReplies)
        \/ RetrieveRecorded(p, EmbedReplies, FoundReplies)

SpecRetrieve == InitRetrieve /\ [][NextRetrieve]_vars

----------------------------------------------------------------------------
(* Two SubmitAudit calls and a client asking for results *)

\* the extraction call fails, or returns a text that is not JSON (the
\* response becomes the one claim), or returns an array of one claim
NextStore ==
    \/ \E p \in Calls :
            \/ SubmitAudit(p, TwoRequests)
            \/ Decompose(p, {Raises("ConnectionError"), Returned(NotJson),
                             Returned(JsonText(ClaimArray(1)))})
            \/ Verify(p, TwoVerifyReplies)
            \/ Score(p)
            \/ Finish(p)
    \/ GetAuditResult(AskedIds)

SpecStore == InitTwo /\ [][NextStore]_vars

----------------------------------------------------------------------------
(* A SubmitAudit call that its caller cancels *)

\* a provider.complete call returns (claims, a judgment), or the task is
\* cancelled while the call waits for the backend
NextCancel ==
    \E p \in Calls :
        \/ SubmitAudit(p, Requests)
        \/ Decompose(p, TwoDecomposeReplies \cup {Raises("CancelledError")})
        \/ Retrieve(p, {"none"}, {Found(<<DOC_2>>)})
        \/ Verify(p, TwoVerifyReplies \cup {Raises("CancelledError")})
        \/ Score(p)
        \/ Finish(p)
        \/ Cancel(p)

SpecCancel == Init /\ [][NextCancel]_vars

----------------------------------------------------------------------------
(* A SubmitAudit call whose provider is the OllamaProvider *)

\* the texts the backend generates: not JSON, an array of one claim, judgments
OllamaContents ==
    {NotJson, JsonText(ClaimArray(1)), Judgment(SUPPORTED_NAME, 90),
     Judgment(UNSUPPORTED_NAME, 80)}

\* the bodies of the backend's responses
OllamaBodies ==
    {PlainBody("text"), PlainBody("arr"), ChatBody(None, None),
     ChatBody(Some(Message("null", None)), None),
     ChatBody(Some(Message("obj", None)), None),
     ChatBody(Some(Message("obj", Some(NotJson))), Some(JStr(<<"5">>)))}
    \cup {ChatBody(Some(Message("obj", Some(c))), n) :
            c \in OllamaContents, n \in {None, Some(JNum(500))}}

\* the HTTP exchanges: client.post raises (connection refused, timeouts, the
\* task is cancelled), or the backend answers with an error status, or
\* with 200 and one of the bodies
Exchanges ==
    [post : {"ConnectError", "ConnectTimeout", "ReadTimeout", "CancelledError"},
     status : {0}, body : {PlainBody("text")}]
    \cup [post : {"none"}, status : {404, 500}, body : {PlainBody("text")}]
    \cup [post : {"none"}, status : {200}, body : OllamaBodies]

\* every extraction gives one claim, so each stage makes one complete call
NextOllama ==
    \E p \in Calls :
        \/ SubmitAudit(p, JudgeRequests)
        \/ Complete(p, Exchanges)
        \/ Decompose(p, Completion(p))
        \/ Verify(p, Completion(p))
        \/ Score(p)
        \/ Finish(p)

SpecOllama == InitJudge /\ [][NextOllama]_vars

----------------------------------------------------------------------------
(* The reasoning trace of runs with many claims *)

\* the extraction call returns an array of at most MaxTraced claims
TraceDecomposeReplies == {Returned(JsonText(ClaimArray(k))) : k \in 1..MaxTraced}

\* the judgments of the verification calls: any of the four statuses in a
\* short run (a text that is not JSON gives Unknown), two of them in a long one
TraceJudgmentsFor(p) ==
    IF Len(Get(state[p].claims)) <= MaxClaims
    THEN {Returned(NotJson), Returned(Judgment(SUPPORTED_NAME, 90)),
          Returned(Judgment(UNSUPPORTED_NAME, 80)),
          Returned(Judgment(PARTIALLY_SUPPORTED_NAME, 50))}
    ELSE {Returned(Judgment(SUPPORTED_NAME, 90)), Returned(Judgment(UNSUPPORTED_NAME, 80))}

NextTrace ==
    \E p \in Calls :
        \/ SubmitAudit(p, JudgeRequests)
        \/ Decompose(p, TraceDecomposeReplies)
        \/ Verify(p, TraceJudgmentsFor(p))
        \/ Score(p)
        \/ Finish(p)

SpecTrace == InitJudge /\ [][NextTrace]_vars

----------------------------------------------------------------------------
(* Properties *)

\* SubmitAudit of call p has returned with the given status
Reported(p, status) ==
    /\ pc[p] = "done"
    /\ submission[p] # None
    /\ Get(submission[p]).status = status

\* the entry the store holds for call p
Entry(p) == audit_results[Get(audit_id[p])]

\* the run of call p has executed the node
Ran(p, node) == InSeq(node, visited[p])

\* the outcome of the extraction call of run p
ExtractionReply(p) == llm_log[p][1].reply

\* run p has made its extraction call
Extracted(p) == llm_log[p] # << >> /\ llm_log[p][1].caller = "decompose"

\* the stages in pipeline order
STAGES == <<"decompose", "retrieve", "verify", "score">>

\* C1: a stage that raises ends the run: the call is reported failed, the
\* store holds the error and the request_id, no node runs afterwards; and a
\* result reported completed has claims, claim_verifications,
\* faithfulness_score, hallucination_detected and reasoning_trace all set.
C1_FatalStageFailure ==
    /\ [](\A p \in Calls :
            /\ raised[p] # "none" =>
                 /\ Reported(p, "failed")
                 /\ Entry(p) = [error |-> raised[p], request_id |-> request[p].request_id]
            /\ Reported(p, "failed") => raised[p] # "none"
            /\ Reported(p, "completed") =>
                 /\ raised[p] = "none"
                 /\ "error" \notin DOMAIN Entry(p)
                 /\ Entry(p).request_id = request[p].request_id
                 /\ Entry(p).claims # None
                 /\ Entry(p).claim_verifications # None
                 /\ Entry(p).faithfulness_score # None
                 /\ Entry(p).hallucination_detected # None
                 /\ Entry(p).reasoning_trace # None)
    /\ [][\A p \in Calls :
            raised[p] # "none" =>
                /\ visited'[p] = visited[p]
                /\ llm_log'[p] = llm_log[p]
                /\ search_log'[p] = search_log[p]
                /\ audit_results' = audit_results]_vars

\* C1 witness: the Verify stage raised after Decompose had run, and the call
\* was reported failed
C1_Witness ==
    /\ raised[1] = "UnboundLocalError"
    /\ visited[1] = <<"decompose", "verify">>
    /\ Reported(1, "failed")

\* C2: a completed result holds one verification per claim, in claim order
C2_OneVerificationPerClaim ==
    \A p \in Calls :
        Reported(p, "completed") =>
            LET claims == Get(Entry(p).claims)
                verifications == Get(Entry(p).claim_verifications)
            IN  /\ Len(verifications) = Len(claims)
                /\ \A i \in 1..Len(claims) : verifications[i].claim = claims[i]

\* C2 witness: a completed result with two different claims, the first
\* judgment failed and the second succeeded
C2_Witness ==
    /\ Reported(1, "completed")
    /\ Get(Entry(1).claims) = <<CLAIM_A, CLAIM_B>>
    /\ Get(Entry(1).claim_verifications)[1].status = "unknown"
    /\ Get(Entry(1).claim_verifications)[2].status = "supported"

\* the stages of the graph, in pipeline order
PresentStages == SelectSeq(STAGES, LAMBDA n : (embedding_service /\ qdrant_store) \/ n # "retrieve")

\* C3: the nodes a run has executed are an initial part of Decompose,
\* Retrieve (when present), Verify, Score, each once; a run that has not
\* failed stands at the next of them, or at END after the last, or has
\* returned after END; a completed run has executed them all.
C3_FixedStageOrder ==
    \A p \in Calls :
        /\ Len(visited[p]) <= Len(PresentStages)
        /\ visited[p] = SubSeq(PresentStages, 1, Len(visited[p]))
        /\ raised[p] = "none" /\ pc[p] \notin {"idle", "off"} =>
             IF Len(visited[p]) < Len(PresentStages)
             THEN pc[p] = PresentStages[Len(visited[p]) + 1]
             ELSE pc[p] \in {"END", "done"}
        /\ Reported(p, "completed") => visited[p] = PresentStages

\* C3 witness: a completed run of the graph with retrieval
C3_Witness ==
    /\ Reported(1, "completed")
    /\ visited[1] = <<"decompose", "retrieve", "verify", "score">>

\* C4: Retrieve is a node of the graph exactly when both collaborators were
\* supplied; without one of them a run goes from Decompose to Verify and
\* calls neither embed nor search; with both, Retrieve follows Decompose.
C4_RetrieveOnlyWithBothCollaborators ==
    /\ "retrieve" \in audit_graph.nodes <=> (embedding_service /\ qdrant_store)
    /\ \A p \in Calls :
        /\ (Ran(p, "retrieve") \/ pc[p] = "retrieve") => embedding_service /\ qdrant_store
        /\ ~(embedding_service /\ qdrant_store) =>
             /\ embed_calls[p] = << >>
             /\ search_log[p] = << >>
             /\ Len(visited[p]) >= 2 => SubSeq(visited[p], 1, 2) = <<"decompose", "verify">>
             /\ Len(visited[p]) = 1 /\ raised[p] = "none" => pc[p] = "verify"
        /\ embedding_service /\ qdrant_store =>
             /\ Len(visited[p]) >= 2 => SubSeq(visited[p], 1, 2) = <<"decompose", "retrieve">>
             /\ Len(visited[p]) = 1 /\ raised[p] = "none" => pc[p] = "retrieve"

\* C4 witness: a completed run of a graph built with the embedding service
\* but without the vector store
C4_Witness ==
    /\ embedding_service /\ ~qdrant_store
    /\ Reported(1, "completed")
    /\ visited[1] = <<"decompose", "verify", "score">>

\* C5: once Retrieve has run, every context document of the request is
\* among the context_docs the Verify stage works with
C5_CallerContextKept ==
    \A p \in Calls :
        Ran(p, "retrieve") /\ raised[p] = "none" =>
            \A i \in 1..Len(request[p].context) :
                InSeq(request[p].context[i], state[p].context_docs)

\* C6: the Score stage of a run that extracted no claim ends without error
\* with score 0.0 and hallucination false
C6_EmptyAggregation ==
    \A p \in Calls :
        Ran(p, "score") /\ state[p].claims = Some(<< >>) =>
            /\ raised[p] = "none"
            /\ state[p].faithfulness_score = Some(Zero)
            /\ state[p].hallucination_detected = Some(FALSE)

\* the verify_claim calls of run p, by position in the claims
VerifyReply(p, i) == llm_log[p][i + 1].reply

\* C7: verify_claim never raises, whatever the inference call does: a run
\* does not end in its Verify stage, and a claim whose inference call raised
\* or returned no JSON gets status unknown, confidence 0.0, no evidence
C7_VerifyNeverRaises ==
    \A p \in Calls :
        /\ visited[p] # << >> /\ visited[p][Len(visited[p])] = "verify" => raised[p] = "none"
        /\ state[p] # None /\ state[p].claim_verifications # None =>
             \A i \in 1..Len(Get(state[p].claim_verifications)) :
                 (VerifyReply(p, i).exc # "none" \/ ~VerifyReply(p, i).content.wf) =>
                     Get(state[p].claim_verifications)[i]
                         = [claim |-> Get(state[p].claims)[i], status |-> "unknown",
                            confidence |-> Hundredths(0), evidence |-> JArr(<< >>)]

\* the text is a JSON array whose items are all strings
IsArrayOfStrings(content) ==
    /\ content.wf
    /\ content.json.t = "arr"
    /\ \A i \in 1..Len(content.json.a) : content.json.a[i].t = "str"

\* C8: when the inference call returns a text that is no JSON array of
\* strings, extraction does not raise and the claims are [response]
C8_ExtractFallsBack ==
    \A p \in Calls :
        Extracted(p) /\ ExtractionReply(p).exc = "none"
          /\ ~IsArrayOfStrings(ExtractionReply(p).content) =>
            /\ ~(Len(visited[p]) = 1 /\ raised[p] # "none")
            /\ state[p].claims = Some(<<request[p].response>>)

\* C9: when the model output is no JSON, the claims are exactly the
\* response of the request, and the run stands at the next stage
C9_MalformedJsonFallback ==
    \A p \in Calls :
        Extracted(p) /\ ExtractionReply(p).exc = "none" /\ ~ExtractionReply(p).content.wf =>
            /\ state[p].claims # None
            /\ Len(Get(state[p].claims)) = 1
            /\ Get(state[p].claims)[1] = request[p].response
            /\ visited[p][1] = "decompose"
            /\ Len(visited[p]) = 1 =>
                 /\ raised[p] = "none"
                 /\ pc[p] = IF embedding_service /\ qdrant_store THEN "retrieve" ELSE "verify"

\* C9 witness: the fallback claim is a response too short to pass the
\* filter, and the run stands at its Verify stage
C9_Witness ==
    /\ Extracted(1)
    /\ ExtractionReply(1) = Returned(NotJson)
    /\ state[1].claims = Some(<<RESPONSE_SHORT>>)
    /\ visited[1] = <<"decompose">>
    /\ pc[1] = "verify"

\* the length of s without its leading and trailing spaces
TrimmedLen(s) ==
    LET inked == {i \in 1..Len(s) : s[i] # " "}
    IN  IF inked = {} THEN 0
        ELSE (CHOOSE i \in inked : \A j \in inked : j <= i)
             - (CHOOSE i \in inked : \A j \in inked : i <= j) + 1

\* C10: when the model output is a JSON array of strings, the claims are
\* the entries of trimmed length above 5, in array order, and nothing else
C10_FilterKeepsLongEntries ==
    \A p \in Calls :
        Extracted(p) /\ ExtractionReply(p).exc = "none"
          /\ IsArrayOfStrings(ExtractionReply(p).content) =>
            LET entries == [i \in 1..Len(ExtractionReply(p).content.json.a) |->
                              ExtractionReply(p).content.json.a[i].s]
            IN  /\ raised[p] = "none"
                /\ state[p].claims = Some(SelectSeq(entries, LAMBDA e : TrimmedLen(e) > 5))

\* C10 witness: of two entries longer than 5 characters, the one that is
\* 5 characters long after trimming was dropped and the other was kept
C10_Witness ==
    /\ Extracted(1)
    /\ ExtractionReply(1) = Returned(JsonText(JArr(<<JStr(CLAIM_SHORT), JStr(CLAIM_B)>>)))
    /\ state[1].claims = Some(<<CLAIM_B>>)

\* C11: every claim of a run, whichever way extraction produced it, is longer
\* than 5 characters once trimmed
C11_ClaimsLongerThanFive ==
    \A p \in Calls :
        state[p] # None /\ state[p].claims # None =>
            \A i \in 1..Len(Get(state[p].claims)) :
                TrimmedLen(Get(state[p].claims)[i]) > MinClaimLen

\* the judgment is an object whose status member is a string naming
\* SUPPORTED, UNSUPPORTED or PARTIALLY_SUPPORTED in some letter case
NamesVerdict(content) ==
    /\ content.wf
    /\ content.json.t = "obj"
    /\ HasKey(content.json.o, "status")
    /\ Member(content.json.o, "status").t = "str"
    /\ Upper(Member(content.json.o, "status").s)
           \in {SUPPORTED_NAME, UNSUPPORTED_NAME, PARTIALLY_SUPPORTED_NAME}

\* C12: a verification with status unknown has confidence 0.0 and no
\* evidence, and a judgment whose status member is missing or names none of
\* SUPPORTED, UNSUPPORTED, PARTIALLY_SUPPORTED yields the verification
\* [claim, unknown, 0.0, no evidence]
C12_UnknownOnlyAsFallback ==
    \A p \in Calls :
        state[p] # None /\ state[p].claim_verifications # None =>
            \A i \in 1..Len(Get(state[p].claim_verifications)) :
                LET v == Get(state[p].claim_verifications)[i]
                    fallback == [claim |-> Get(state[p].claims)[i], status |-> "unknown",
                                 confidence |-> Zero, evidence |-> JArr(<< >>)]
                IN  /\ v.status = "unknown" => v = fallback
                    /\ VerifyReply(p, i).exc = "none"
                         /\ ~NamesVerdict(VerifyReply(p, i).content) => v = fallback

\* a <= b on floats: every comparison with nan is False
FloatLe(a, b) ==
    IF IsNaN(a) \/ IsNaN(b) THEN FALSE
    ELSE IF ~IsFinite(a) /\ ~IsFinite(b) THEN a.num <= b.num
    ELSE a.num * b.den <= b.num * a.den

\* C13: every verification the Verify stage produces has a confidence
\* between 0.0 and 1.0, whatever confidence the judgment reports
C13_ConfidenceInUnitInterval ==
    \A p \in Calls :
        state[p] # None /\ state[p].claim_verifications # None =>
            \A i \in 1..Len(Get(state[p].claim_verifications)) :
                LET confidence == Get(state[p].claim_verifications)[i].confidence
                IN  FloatLe(Zero, confidence) /\ FloatLe(confidence, Fraction(1, 1))

\* an inference call of run p found the backend unreachable
BackendUnreachable(p) ==
    \E k \in 1..Len(llm_log[p]) : llm_log[p][k].reply.exc = "ConnectionError"

\* C14: a run one of whose inference calls, for extraction or for a claim,
\* found the backend unreachable is aborted by that call and is reported
\* failed with an error entry; it is never completed with a score
C14_UnreachableBackendAborts ==
    \A p \in Calls :
        BackendUnreachable(p) =>
            /\ raised[p] # "none"
            /\ Reported(p, "failed")
            /\ "error" \in DOMAIN Entry(p)
            /\ state[p].faithfulness_score = None

\* C15: once SubmitAudit has stored an entry, it reports "failed" exactly
\* when the entry holds an error; GetAuditResult answers FAILED for an error
\* entry, with the request_id, the error as reasoning trace, no claims and
\* no score, and COMPLETED for any other entry; a call reported completed is
\* never answered FAILED and one reported failed never COMPLETED
C15_FailedAuditReported ==
    /\ \A p \in Calls :
        submission[p] # None =>
            /\ Get(audit_id[p]) \in DOMAIN audit_results
            /\ Get(submission[p]).status \in {"failed", "completed"}
            /\ Get(submission[p]).status = "failed" <=> "error" \in DOMAIN Entry(p)
    /\ result_reply # None /\ Get(result_reply).code = "OK" =>
        LET asked == Get(result_reply).asked
            message == Get(result_reply).message
        IN  /\ asked \in DOMAIN audit_results
            /\ message.audit_id = Some(asked)
            /\ IF "error" \in DOMAIN audit_results[asked]
               THEN /\ message.status = Some("AUDIT_STATUS_FAILED")
                    /\ message.request_id = Some(audit_results[asked].request_id)
                    /\ message.reasoning_trace
                           = Some(<<"Error: ", audit_results[asked].error>>)
                    /\ message.claims = None
                    /\ message.faithfulness_score = None
                    /\ message.grade = None
               ELSE message.status = Some("AUDIT_STATUS_COMPLETED")
            /\ \A p \in Calls :
                audit_id[p] = Some(asked) =>
                    /\ Reported(p, "failed") =>
                         /\ message.status = Some("AUDIT_STATUS_FAILED")
                         /\ message.request_id = Some(request[p].request_id)
                         /\ message.reasoning_trace = Some(<<"Error: ", raised[p]>>)
                    /\ Reported(p, "completed") =>
                         message.status = Some("AUDIT_STATUS_COMPLETED")

\* C15 witness: the Verify stage of the call raised, the call was reported
\* failed, and a client asking for its audit id got the FAILED message
C15_Witness ==
    /\ Reported(1, "failed")
    /\ visited[1] = <<"decompose", "verify">>
    /\ result_reply # None
    /\ Get(result_reply).asked = Get(audit_id[1])
    /\ Get(result_reply).code = "OK"
    /\ Get(result_reply).message.status = Some("AUDIT_STATUS_FAILED")
    /\ Get(result_reply).message.reasoning_trace = Some(<<"Error: ", "UnboundLocalError">>)

\* f[1] + ... + f[n]
RECURSIVE SumTo(_, _)
SumTo(f, n) == IF n = 0 THEN 0 ELSE f[n] + SumTo(f, n - 1)

\* the verifications of run p once its Verify stage has produced them
Verified(p) == state[p] # None /\ state[p].claim_verifications # None
Verifications(p) == Get(state[p].claim_verifications)

\* the base score of a status, counted in tenths
BaseTenths(status) ==
    CASE status = "supported" -> 10
      [] status = "partially_supported" -> 5
      [] status = "unsupported" -> 0
      [] status = "unknown" -> 3

\* max(confidence, 0.1) of a confidence that is not nan or inf, counted in
\* hundredths (-inf is below 0.1)
WeightHundredths(confidence) ==
    IF ~IsFinite(confidence) THEN 10
    ELSE IF confidence.num * 10 > confidence.den
         THEN (confidence.num * 100) \div confidence.den
         ELSE 10

\* the weight of some verification is nan or inf, so the sums are nan or inf
\* and their quotient is nan
SomeWeightUnbounded(verifications) ==
    \E i \in 1..Len(verifications) :
        verifications[i].confidence \in {NaN, Infinity}

\* C16: for a non-empty list of verifications the score is the sum of
\* base_score * weight divided by the sum of the weights, with base scores
\* 1.0, 0.5, 0.0, 0.3 and weight max(confidence, 0.1); the sum of the weights
\* is above zero; the Score stage stores that score
C16_WeightedAverage ==
    \A p \in Calls :
        Verified(p) /\ Verifications(p) # << >> =>
            LET v == Verifications(p)
                n == Len(v)
                score == calculate_faithfulness_score(v)
                weights == SumTo([i \in 1..n |-> WeightHundredths(v[i].confidence)], n)
                weighted == SumTo([i \in 1..n |-> BaseTenths(v[i].status)
                                                   * WeightHundredths(v[i].confidence)], n)
            IN  /\ weights > 0
                /\ IF SomeWeightUnbounded(v) THEN IsNaN(score)
                   ELSE /\ IsFinite(score)
                        /\ score.num * 10 * weights = weighted * score.den
                /\ Ran(p, "score") /\ raised[p] = "none" =>
                       state[p].faithfulness_score = Some(score)

\* C16 witness: a Supported claim at 0.9 and an Unsupported claim at 0.8
\* were scored 0.9 / 1.7
C16_Witness ==
    /\ Ran(1, "score")
    /\ Len(Verifications(1)) = 2
    /\ Verifications(1)[1].status = "supported"
    /\ Verifications(1)[1].confidence = Fraction(9, 10)
    /\ Verifications(1)[2].status = "unsupported"
    /\ Verifications(1)[2].confidence = Fraction(8, 10)
    /\ state[1].faithfulness_score = Some([num |-> 9, den |-> 17])

\* C17: the score of every list of verifications the Verify stage can
\* produce, and the score a run stores, lies between 0.0 and 1.0
C17_ScoreInUnitInterval ==
    \A p \in Calls :
        /\ Verified(p) =>
             LET score == calculate_faithfulness_score(Verifications(p))
             IN  FloatLe(Zero, score) /\ FloatLe(score, Fraction(1, 1))
        /\ state[p] # None /\ state[p].faithfulness_score # None =>
             /\ FloatLe(Zero, Get(state[p].faithfulness_score))
             /\ FloatLe(Get(state[p].faithfulness_score), Fraction(1, 1))

\* the confidence is above 0.7: inf is, nan and -inf are not
AboveSevenTenths(confidence) ==
    IF IsFinite(confidence) THEN confidence.num * 10 > 7 * confidence.den
    ELSE confidence = Infinity

\* some Unsupported verification has a confidence above 0.7
DecisiveUnsupported(verifications) ==
    \E i \in 1..Len(verifications) :
        /\ verifications[i].status = "unsupported"
        /\ AboveSevenTenths(verifications[i].confidence)

\* more than 30% of the verifications are Unsupported or PartiallySupported
ManyProblematic(verifications) ==
    10 * Cardinality({i \in 1..Len(verifications) :
                        verifications[i].status \in {"unsupported", "partially_supported"}})
        > 3 * Len(verifications)

\* C18: hallucination is detected exactly when some Unsupported verification
\* has a confidence above 0.7 or more than 30% of the verifications are
\* Unsupported or PartiallySupported; the Score stage stores that flag
C18_HallucinationRule ==
    \A p \in Calls :
        Verified(p) =>
            LET v == Verifications(p)
            IN  /\ detect_hallucination(v) <=> (DecisiveUnsupported(v) \/ ManyProblematic(v))
                /\ Ran(p, "score") /\ raised[p] = "none" =>
                       state[p].hallucination_detected
                           = Some(DecisiveUnsupported(v) \/ ManyProblematic(v))

\* C18 witness: of ten verifications exactly three are PartiallySupported
\* and none is Unsupported, and no hallucination was detected
C18_Witness ==
    /\ Ran(1, "score")
    /\ Len(Verifications(1)) = 10
    /\ CountStatus(Verifications(1), {"partially_supported"}) = 3
    /\ CountStatus(Verifications(1), {"supported"}) = 7
    /\ state[1].hallucination_detected = Some(FALSE)

\* confidences above 0.7 an Unsupported verification can carry
ConfidencesAboveSevenTenths ==
    {Hundredths(71), Hundredths(80), Hundredths(100), Hundredths(150), Infinity}

\* the list with its i-th entry replaced by an Unsupported one
WithUnsupported(verifications, i, confidence) ==
    [verifications EXCEPT ![i] = [@ EXCEPT !.status = "unsupported",
                                           !.confidence = confidence]]

\* C19: in every list of verifications, replacing any Supported entry by an
\* Unsupported entry of confidence above 0.7 gives a list for which
\* hallucination is detected
C19_HallucinationMonotone ==
    \A p \in Calls :
        Verified(p) =>
            \A i \in 1..Len(Verifications(p)) :
                Verifications(p)[i].status = "supported" =>
                    \A confidence \in ConfidencesAboveSevenTenths :
                        detect_hallucination(WithUnsupported(Verifications(p), i, confidence))

\* C19 witness: four Supported verifications for which the Score stage
\* detected no hallucination, while it is detected once the last of them is
\* replaced by an Unsupported one at 0.71, a quarter of the list
C19_Witness ==
    /\ Ran(1, "score")
    /\ Len(Verifications(1)) = 4
    /\ \A i \in 1..4 : Verifications(1)[i].status = "supported"
    /\ state[1].hallucination_detected = Some(FALSE)
    /\ detect_hallucination(WithUnsupported(Verifications(1), 4, Hundredths(71)))
    /\ ~ManyProblematic(WithUnsupported(Verifications(1), 4, Hundredths(71)))

\* the Score stage of run p has stored its results
Scored(p) == Ran(p, "score") /\ raised[p] = "none"

Retrieved(p) == Ran(p, "retrieve") /\ pc[p] = "verify"

\* the texts the searches of run p returned, one list after the other
RECURSIVE ResultTexts(_, _)
ResultTexts(p, i) ==
    IF i > Len(search_results[p]) THEN << >>
    ELSE search_results[p][i].docs \o ResultTexts(p, i + 1)

\* seq from position i on without the entries that occur at an earlier position
RECURSIVE FirstOccurrences(_, _)
FirstOccurrences(seq, i) ==
    IF i > Len(seq) THEN << >>
    ELSE (IF \E j \in 1..(i - 1) : seq[j] = seq[i] THEN << >> ELSE <<seq[i]>>)
         \o FirstOccurrences(seq, i + 1)

\* C21: the output of retrieve holds no text twice and is the concatenation
\* of the per-query result lists, in query order, without the later
\* occurrences of a text: every returned text once, at its first-seen
\* position, and nothing else
C21_RetrieveDeduplicates ==
    \A p \in Calls :
        Retrieved(p) =>
            LET docs == state[p].context_docs
                texts == ResultTexts(p, 1)
            IN  /\ docs = FirstOccurrences(texts, 1)
                /\ \A i, j \in 1..Len(docs) : docs[i] = docs[j] => i = j
                /\ \A k \in 1..Len(texts) :
                       Cardinality({i \in 1..Len(docs) : docs[i] = texts[k]}) = 1
                /\ \A i \in 1..Len(docs) : InSeq(docs[i], texts)

\* one search returned the same text twice, the next one a new text and
\* the same text again
C21_Witness ==
    /\ Retrieved(1)
    /\ search_results[1] = <<Found(<<DOC_1, DOC_1>>), Found(<<DOC_2, DOC_1>>)>>
    /\ state[1].context_docs = <<DOC_1, DOC_2>>

\* run p reached its Retrieve stage with an empty user_query and no claims
NothingToSearch(p) ==
    /\ Ran(p, "retrieve")
    /\ state[p].user_query = << >>
    /\ state[p].claims \in {None, Some(<< >>)}

\* C22: with an empty user_query and no claims retrieve returns an empty
\* sequence and makes no embedding call and no vector search
C22_EmptyQueryList ==
    \A p \in Calls :
        NothingToSearch(p) =>
            /\ Retrieved(p)
            /\ state[p].context_docs = << >>
            /\ embed_calls[p] = << >>
            /\ search_log[p] = << >>
            /\ search_results[p] = << >>

\* the request had no query but a context document, the extraction gave no claim
C22_Witness ==
    /\ NothingToSearch(1)
    /\ request[1].context = <<DOC_1>>
    /\ state[1].claims = Some(<< >>)
    /\ state[1].context_docs = << >>

\* C23: an entry of the result store is written once: no step of any
\* SubmitAudit or GetAuditResult call, however the calls interleave, changes
\* or removes an entry that is there, and a lookup of its audit id keeps
\* returning the same data
C23_StoreWriteOnce ==
    /\ [][\A id \in DOMAIN audit_results :
            /\ id \in DOMAIN audit_results'
            /\ audit_results'[id] = audit_results[id]
            /\ get_audit_result(audit_results', id)
                   = get_audit_result(audit_results, id)]_vars
    /\ [](result_reply # None /\ Get(result_reply).code = "OK" =>
            LET reply == Get(result_reply)
                again == get_audit_result(audit_results, reply.asked)
            IN  again.code = reply.code /\ again.message = reply.message)

\* a client was given the entry of call 1; the store holds an error entry
\* and a final state, written by the two calls
C23_Witness ==
    /\ result_reply # None
    /\ Get(result_reply).code = "OK"
    /\ audit_id[1] # None
    /\ Get(result_reply).asked = Get(audit_id[1])
    /\ Cardinality(DOMAIN audit_results) = 2
    /\ \E id \in DOMAIN audit_results : "error" \in DOMAIN audit_results[id]
    /\ \E id \in DOMAIN audit_results : "error" \notin DOMAIN audit_results[id]

\* SubmitAudit of call p has returned
HasReturned(p) == pc[p] = "done" /\ submission[p] # None

\* the outcomes of the verification calls of run p, in call order
VerifyRepliesOf(p) ==
    [i \in 1..(Len(llm_log[p]) - 1) |-> llm_log[p][i + 1].reply]

\* C24: under any interleaving of SubmitAudit calls, a call that has
\* returned has stored one entry under its own audit id, which no other call
\* has; the entry holds the request_id of the call's request and, for a
\* completed audit, the claims extracted for that request and their
\* verifications; the store holds one entry per returned call, also when
\* the requests carry the same request_id
C24_CallsAreIndependent ==
    /\ \A p, q \in Calls :
           p # q /\ audit_id[p] # None /\ audit_id[q] # None => audit_id[p] # audit_id[q]
    /\ Cardinality(DOMAIN audit_results) = Cardinality({p \in Calls : HasReturned(p)})
    /\ \A p \in Calls :
           HasReturned(p) =>
               /\ Get(submission[p]).audit_id = Get(audit_id[p])
               /\ Get(audit_id[p]) \in DOMAIN audit_results
               /\ Entry(p).request_id = request[p].request_id
               /\ Reported(p, "failed") => Entry(p).error = raised[p]
               /\ Reported(p, "completed") =>
                      LET claims == decompose_claims(request[p].response,
                                                     ExtractionReply(p)).claims
                          verified == verify_all_claims(claims, request[p].context,
                                                        VerifyRepliesOf(p))
                      IN  /\ Entry(p).audit_id = Get(audit_id[p])
                          /\ Entry(p).llm_response = request[p].response
                          /\ Entry(p).claims = Some(claims)
                          /\ Entry(p).claim_verifications = Some(verified.verifications)

\* both calls carried the same request_id and ran at the same time; both
\* completed, with different claims
C24_Witness ==
    /\ Reported(1, "completed") /\ Reported(2, "completed")
    /\ request[1].request_id = request[2].request_id
    /\ Get(audit_id[2]) < Get(audit_id[1])
    /\ Entry(1).claims # Entry(2).claims
    /\ Entry(1).claim_verifications # Entry(2).claim_verifications

\* the caller cancelled call p while its pipeline was in flight: between
\* two nodes, or while a provider.complete call was waiting
Cancelled(p) ==
    \/ raised[p] = "CancelledError"
    \/ \E i \in 1..Len(llm_log[p]) : llm_log[p][i].reply.exc = "CancelledError"

\* C25: when the caller cancels a SubmitAudit call while its pipeline is in
\* flight, nothing is written for that audit: the store has no entry under
\* its audit id, and the call returns no AuditSubmission
C25_CancelLeavesStoreUntouched ==
    \A p \in Calls :
        Cancelled(p) =>
            /\ Get(audit_id[p]) \notin DOMAIN audit_results
            /\ submission[p] = None

\* the exchanges of a call that failed: the connection could not be made,
\* another transport error, an error status, a body that is not a JSON
\* object or whose fields cannot be read
ConnectionFailed(exchange) == exchange.post = "ConnectError"
OtherFailure(exchange) ==
    \/ exchange.post \in {"ConnectTimeout", "ReadTimeout"}
    \/ exchange.post = "none" /\ exchange.status \in {404, 500}
    \/ /\ exchange.post = "none" /\ exchange.status = 200
       /\ \/ exchange.body.t # "obj"
          \/ exchange.body.message = Some(Message("null", None))
          \/ exchange.body.eval_count = Some(JStr(<<"5">>))

QueryCount(p) ==
    (IF state[p].user_query # << >> THEN 1 ELSE 0) + Len(Get(state[p].claims))
QueryText(p, i) ==
    IF state[p].user_query # << >>
    THEN (IF i = 1 THEN state[p].user_query ELSE Get(state[p].claims)[i - 1])
    ELSE Get(state[p].claims)[i]

\* C27: Retrieve makes exactly one vector search per query text, the
\* user_query first when it is not empty and then the claims in extraction
\* order, each with result cap 3 and similarity threshold 0.3; when it
\* returns no query text was skipped or searched twice, and when a search
\* raises the searches made are the first ones of that list
C27_OneSearchPerQuery ==
    \A p \in Calls :
        Ran(p, "retrieve") =>
            /\ Len(search_log[p]) <= QueryCount(p)
            /\ Retrieved(p) => Len(search_log[p]) = QueryCount(p)
            /\ \A i \in 1..Len(search_log[p]) :
                   /\ search_log[p][i].query = QueryText(p, i)
                   /\ search_log[p][i].top_k = 3
                   /\ search_log[p][i].score_threshold = 30
            /\ Len(search_results[p]) = Len(search_log[p])

\* a query and two claims: three searches, the query first
C27_Witness ==
    /\ Retrieved(1)
    /\ Len(Get(state[1].claims)) = 2
    /\ Len(search_log[1]) = 3
    /\ search_log[1][1].query = QUERY
    /\ search_log[1][2].query = Get(state[1].claims)[1]
    /\ search_log[1][3].query = Get(state[1].claims)[2]
    /\ search_log[1][2].query # search_log[1][3].query

\* the positions of the entries with the status, and how many there are
Positions(verifications, status) ==
    {i \in 1..Len(verifications) : verifications[i].status = status}
HowMany(verifications, status) == Cardinality(Positions(verifications, status))

\* the position of the j-th Unsupported entry
NthUnsupported(verifications, j) ==
    CHOOSE i \in Positions(verifications, "unsupported") :
        Cardinality({k \in Positions(verifications, "unsupported") : k <= i}) = j

\* C28: for a non-empty list of verifications with u Unsupported entries the
\* reasoning trace reports per-status counts that add up to the number of
\* claims, lists the first min(u, 5) Unsupported claims in list order and no
\* claim of another status, and reports a remainder, u - 5, exactly when u > 5
C28_TraceListsUnsupported ==
    \A p \in Calls :
        Scored(p) /\ Verifications(p) # << >> =>
            LET verifications == Verifications(p)
                u == HowMany(verifications, "unsupported")
                trace == Get(state[p].reasoning_trace)
                listed == trace.unsupported_claims
            IN  /\ trace.total = Len(verifications)
                /\ trace.supported[1] = HowMany(verifications, "supported")
                /\ trace.partially_supported[1]
                       = HowMany(verifications, "partially_supported")
                /\ trace.unsupported[1] = u
                /\ trace.unknown[1] = HowMany(verifications, "unknown")
                /\ trace.supported[1] + trace.partially_supported[1]
                       + trace.unsupported[1] + trace.unknown[1] = trace.total
                /\ Len(listed) = (IF u < 5 THEN u ELSE 5)
                /\ \A j \in 1..Len(listed) :
                       listed[j] = verifications[NthUnsupported(verifications, j)].claim
                /\ (trace.more # None) <=> (u > 5)
                /\ u > 5 => trace.more = Some(u - 5)

\* seven claims, six of them Unsupported: five are listed, the Supported
\* second claim is not, and one more is reported
C28_Witness ==
    /\ Scored(1)
    /\ Len(Verifications(1)) = 7
    /\ Verifications(1)[2].status = "supported"
    /\ HowMany(Verifications(1), "unsupported") = 6
    /\ Len(Get(state[1].reasoning_trace).unsupported_claims) = 5
    /\ Get(state[1].reasoning_trace).unsupported_claims[2] = Verifications(1)[3].claim
    /\ Get(state[1].reasoning_trace).more = Some(1)

\* the fields of the run state, and the ones each stage is to write
StateFields ==
    {"request_id", "user_query", "llm_response", "context_docs", "claims",
     "claim_verifications", "faithfulness_score", "hallucination_detected",
     "reasoning_trace"}
OutputFields(node) ==
    CASE node = "decompose" -> {"claims"}
      [] node = "retrieve" -> {"context_docs"}
      [] node = "verify" -> {"claim_verifications"}
      [] node = "score" ->
            {"faithfulness_score", "hallucination_detected", "reasoning_trace"}

\* C29: a stage changes only its own output fields of the run state:
\* Decompose claims, Retrieve context_docs, Verify claim_verifications, Score
\* faithfulness_score, hallucination_detected and reasoning_trace; and the
\* request_id, user_query and llm_response of the stored final result are
\* the submitted ones
C29_StagesWriteOwnFields ==
    /\ [][\A p \in Calls : \A i \in 1..Len(STAGES) :
            visited'[p] = Append(visited[p], STAGES[i]) =>
                \A f \in StateFields \ OutputFields(STAGES[i]) :
                    state'[p][f] = state[p][f]]_vars
    /\ [](\A p \in Calls :
            Reported(p, "completed") =>
                /\ Entry(p).request_id = request[p].request_id
                /\ Entry(p).user_query = request[p].query
                /\ Entry(p).llm_response = request[p].response)

\* a completed run of the four stages: every stage has written its
\* fields, Retrieve has replaced the context of the request
C29_Witness ==
    /\ Reported(1, "completed")
    /\ visited[1] = STAGES
    /\ request[1].query = QUERY
    /\ request[1].context = <<DOC_1>>
    /\ Entry(1).context_docs = <<DOC_2>>
    /\ Len(Get(Entry(1).claims)) = 2
    /\ Len(Get(Entry(1).claim_verifications)) = 2
    /\ Entry(1).hallucination_detected = Some(TRUE)

\* every entry of the list has one of the statuses
AllOf(verifications, statuses) ==
    \A i \in 1..Len(verifications) : verifications[i].status \in statuses

\* C30: Unknown verifications never raise the hallucination flag: a list
\* whose entries are all Supported or Unknown is not flagged, and a
\* non-empty list of Unknown entries only has the score 0.3 and its audit
\* is reported completed
C30_UnknownNeverHallucination ==
    \A p \in Calls :
        /\ Scored(p) /\ AllOf(Verifications(p), {"supported", "unknown"}) =>
               state[p].hallucination_detected = Some(FALSE)
        /\ Scored(p) /\ AllOf(Verifications(p), {"unknown"}) =>
               state[p].faithfulness_score = Some(Fraction(3, 10))
        /\ /\ pc[p] = "done" /\ Verified(p)
           /\ Verifications(p) # << >> /\ AllOf(Verifications(p), {"unknown"})
           => Reported(p, "completed")

====
